---- MODULE Spec2Model ----
(***************************************************************************)
(* Model of the external-API access layer of the Steam inventory parser.   *)
(*                                                                         *)
(* RequestManager (src/server/lib/request-manager.ts) is modelled as a     *)
(* state machine.  The process holds two RequestManager objects, one owned *)
(* by SteamParser and one owned by MarketPrice (routes.ts builds one of    *)
(* each), so every field of the class is a function over Managers.         *)
(* A makeRequest call is cut at its awaits: each action is the code that   *)
(* runs between two awaits.  Time is the value of Date.now() in ms.        *)
(***************************************************************************)
EXTENDS Integers, Sequences, FiniteSets, TLC

VARIABLES
    now,                          \* Date.now()
    requestDelay,                 \* settings.requestDelay (0 stands for 0, null and unset: all falsy)
    lastRequestTime,              \* [Managers -> Int]     RequestManager.lastRequestTime
    inventoryRequestsThisPeriod,  \* [Managers -> Nat]     RequestManager.inventoryRequestsThisPeriod
    periodStartTime,              \* [Managers -> Int]     RequestManager.periodStartTime
    retryAttempts,                \* [Managers -> Map]     RequestManager.retryAttempts (pathname -> n)
    calls,                        \* [Calls -> record]     the makeRequest calls and their locals
    userAgents,                   \* [Managers -> set]    RequestManager.userAgents
    started,                      \* number of makeRequest calls started by route handlers
    lastDispatch,                 \* history: [Managers -> record] the last request each manager handed to fetch
    processDispatch,              \* history: the last request the process handed to fetch
    inventoryDispatches,          \* history: [Managers -> seq of times] the last inventory requests handed to fetch
    steamApiKey,                  \* settings.steamApiKey ("" stands for "", null and unset: all falsy)
    profileCache,                 \* SteamParser.profileCache (steamId -> data, timestamp)
    op,                           \* the SteamParser operation in progress or just finished, and its locals
    opsStarted,                   \* number of SteamParser operations started
    clockJumps,                   \* number of long pauses between operations
    accounts,                     \* MemStorage.accounts (id -> steamId, isPrivate)
    accountsCurrentId,            \* MemStorage.accountsCurrentId
    upstreamInventory,            \* the body the inventory endpoint answers with
    inventoryCache,               \* SteamParser.inventoryCache (key -> data, timestamp)
    priceCache,                   \* MarketPrice.priceCache (key -> price, timestamp)
    arrays,                       \* the arrays of items getInventory has created
    inv,                          \* the getInventory call in progress or just finished
    quote,                        \* the getItemPrice call in progress or just finished
    route,                        \* the refresh or refresh-all handler in progress or just finished
    storedCases,                  \* MemStorage.cases (id -> case)
    casesCurrentId,               \* MemStorage.casesCurrentId
    currencyCalls,                \* history: the getCurrencyId calls made and their results
    failing                       \* the storage operations that reject

vars == <<now, requestDelay, lastRequestTime, inventoryRequestsThisPeriod, periodStartTime,
          retryAttempts, userAgents, calls, started, lastDispatch, processDispatch,
          inventoryDispatches, steamApiKey, profileCache, op, opsStarted, clockJumps,
          accounts, accountsCurrentId, upstreamInventory, inventoryCache, priceCache,
          arrays, inv, quote, route, storedCases, casesCurrentId, currencyCalls, failing>>

\* the state of SteamParser and of its callers
parserVars == <<steamApiKey, profileCache, op, opsStarted, clockJumps>>

\* the state of the storage, of the upstream inventory, of the caches and of the
\* refresh route
refreshVars == <<accounts, accountsCurrentId, upstreamInventory, inventoryCache, priceCache,
                 arrays, inv, quote, route, storedCases, casesCurrentId, currencyCalls, failing>>

\* the cases of the storage, the getCurrencyId calls and the state of the storage
storeVars == <<storedCases, casesCurrentId, currencyCalls, failing>>

-----------------------------------------------------------------------------
(* Bounds of the model *)

StartTime == 10000000       \* Date.now() when the process constructs its services
MaxCalls == 2               \* makeRequest calls started during one run
MaxTime == 12000000         \* no new call starts after this instant
IdleGap == 675000           \* time that may pass between two calls
StorageLatency == 1         \* time a storage call (getSettings, createLog) takes
FetchLatency == 150         \* time a fetch takes

-----------------------------------------------------------------------------
(* Program constants *)

INVENTORY_PERIOD_MS == 1800000
QUOTA_BUFFER_MS == 60000
MAX_RETRY_ATTEMPTS == 3
DefaultRequestDelay == 2000
InventoryDelayFloor == 8000
InventoryDelayFactor == 4
RandomDelayMin == 2000
RandomDelaySpan == 3000
BackoffBase == 60000
BackoffCap == 300000
ConfiguredDelay == 3000     \* a requestDelay the settings page may store

maxInventoryRequestsPer30Min == 5

Managers == {"parser", "market"}
Calls == {1, 2}

RequestDelays == {0, ConfiguredDelay}
RandomDelays == {RandomDelayMin, RandomDelayMin + RandomDelaySpan - 1}

Max(a, b) == IF a >= b THEN a ELSE b
Min(a, b) == IF a <= b THEN a ELSE b

RECURSIVE Pow2(_)
Pow2(k) == IF k = 0 THEN 1 ELSE 2 * Pow2(k - 1)

-----------------------------------------------------------------------------
(* URLs: origin, pathname (a sequence of segments) and query string *)

ApiOrigin == "https://api.steampowered.com"
CommunityOrigin == "https://steamcommunity.com"

VanityUrl(key) ==
    [origin |-> ApiOrigin, path |-> <<"ISteamUser", "ResolveVanityURL", "v1", "">>,
     query |-> key]
InventoryUrl(id64) ==
    [origin |-> CommunityOrigin, path |-> <<"inventory", id64, "730", "2">>,
     query |-> "l=english"]
PriceUrl(name) ==
    [origin |-> CommunityOrigin, path |-> <<"market", "priceoverview", "">>,
     query |-> name]

\* url.includes('/inventory/'): "inventory" occurs as a segment that is followed by a slash
IsInventoryRequest(url) ==
    \E i \in 1..(Len(url.path) - 1) : url.path[i] = "inventory"

\* new URL(url).pathname
RequestKey(url) == url.path

\* `${urlObj.origin}${urlObj.pathname}`: what a log record says about the URL
LoggedUrl(url) == [origin |-> url.origin, path |-> url.path]

-----------------------------------------------------------------------------
(* Maps (JavaScript Map): a function whose domain is the set of stored keys *)

EmptyMap == [k \in {} |-> 0]
MapHas(m, k) == k \in DOMAIN m
MapSet(m, k, v) == [x \in (DOMAIN m) \cup {k} |-> IF x = k THEN v ELSE m[x]]
MapDelete(m, k) == [x \in (DOMAIN m) \ {k} |-> m[x]]
\* this.retryAttempts.get(requestKey) || 0
AttemptsOf(m, k) == IF MapHas(m, k) THEN m[k] ELSE 0

-----------------------------------------------------------------------------
(* Request headers: options.headers as a plain object, name -> value *)

EmptyHeaders == [h \in {} |-> ""]
NoOptions == [hasHeaders |-> FALSE, headers |-> EmptyHeaders]

\* String.prototype.toLowerCase on the header names of the model
ToLowerCase(h) ==
    CASE h = "User-Agent" -> "user-agent"
      [] h = "USER-AGENT" -> "user-agent"
      [] h = "user-agent" -> "user-agent"
      [] h = "Accept" -> "accept"
      [] OTHER -> h

\* Mutant of HasUserAgent: the header name is compared without lower-casing it
HasUserAgentExactCase(headers) == "User-Agent" \in DOMAIN headers

\* Object.keys(options.headers).some(h => h.toLowerCase() === 'user-agent')
HasUserAgent(headers) == \E h \in DOMAIN headers : ToLowerCase(h) = "user-agent"

\* lines 100-109: the options after the user-agent step, ua = getRandomUserAgent()
WithUserAgent(options, ua) ==
    IF ~options.hasHeaders
    THEN [hasHeaders |-> TRUE, headers |-> [h \in {"User-Agent"} |-> ua]]
    ELSE IF ~HasUserAgent(options.headers)
    THEN [hasHeaders |-> TRUE,
          headers |-> [h \in (DOMAIN options.headers) \cup {"User-Agent"} |->
                          IF h = "User-Agent" THEN ua ELSE options.headers[h]]]
    ELSE options

\* this.userAgents: the built-in pool, and a pool loadUserAgents has read from
\* settings.userAgents
BuiltInUserAgents == {"Chrome/91", "Firefox/89", "Safari/14"}
ConfiguredUserAgents == {"Custom/1.0"}

-----------------------------------------------------------------------------
(* Pure parts of enforceRateLimit and makeRequest *)

\* now - this.periodStartTime > this.INVENTORY_PERIOD_MS
PeriodPassed(t, periodStart) == t - periodStart > INVENTORY_PERIOD_MS

\* this.inventoryRequestsThisPeriod >= this.maxInventoryRequestsPer30Min
QuotaExhausted(count) == count >= maxInventoryRequestsPer30Min

\* Mutant of QuotaTimeToWait: the one-minute buffer is left out
QuotaTimeToWaitNoBuffer(t, periodStart) == INVENTORY_PERIOD_MS - (t - periodStart)

\* this.INVENTORY_PERIOD_MS - (now - this.periodStartTime) + 60000
QuotaTimeToWait(t, periodStart) == INVENTORY_PERIOD_MS - (t - periodStart) + QUOTA_BUFFER_MS

\* settings?.requestDelay || 2000
BaseDelay(configured) == IF configured = 0 THEN DefaultRequestDelay ELSE configured

\* Mutant of MinDelay: an inventory request gets the plain delay
MinDelayFlat(isInventory, baseDelay, randomDelay) == baseDelay

\* isInventoryRequest ? Math.max(8000, baseDelay * 4) + this.getRandomDelay() : baseDelay
MinDelay(isInventory, baseDelay, randomDelay) ==
    IF isInventory
    THEN Max(InventoryDelayFloor, baseDelay * InventoryDelayFactor) + randomDelay
    ELSE baseDelay

\* Mutant of BackoffDelay: the delay grows linearly
BackoffDelayLinear(currentAttempts) == Min(BackoffCap, (currentAttempts + 1) * BackoffBase)

\* Math.min(300000, Math.pow(2, currentAttempts) * 60000)
BackoffDelay(currentAttempts) == Min(BackoffCap, Pow2(currentAttempts) * BackoffBase)

\* Mutant of IsTooManyRequests: server errors are retried as well
IsTooManyRequestsOrServerError(status) == status >= 429

\* response.status === 429
IsTooManyRequests(status) == status = 429

\* Mutant of ClearRetryCounter: the counter is not cleared
ClearRetryCounterSkipped(attempts, key) == attempts

\* Line 120: this.retryAttempts.delete(requestKey), before the fetch
ClearRetryCounter(attempts, key) == MapDelete(attempts, key)

\* Mutant of MayRetry: one retry too many
MayRetryOffByOne(currentAttempts) == currentAttempts <= MAX_RETRY_ATTEMPTS

\* currentAttempts < this.MAX_RETRY_ATTEMPTS
MayRetry(currentAttempts) == currentAttempts < MAX_RETRY_ATTEMPTS

-----------------------------------------------------------------------------
(* Error messages and log records *)

NoMessage == [text |-> "", query |-> ""]
RateLimitMessage ==
    [text |-> "Rate limit exceeded after 3 attempts. Steam API temporarily unavailable.",
     query |-> ""]
\* The message of the error fetch() rejects with.  node-fetch builds it as
\* "request to <url> failed, reason: <cause>", so it may quote the whole URL;
\* other rejections (an abort, a body error) do not.  query is the part of the
\* request's query string that the text contains.
FetchErrorMessages(url) ==
    {[text |-> "The user aborted a request.", query |-> ""],
     [text |-> "request to <url> failed, reason: ECONNRESET", query |-> url.query]}

RequestLog(url) ==
    [level |-> "info", message |-> "API Request", url |-> LoggedUrl(url),
     status |-> 0, error |-> NoMessage]
ErrorResponseLog(url, status) ==
    [level |-> "error", message |-> "API Error Response", url |-> LoggedUrl(url),
     status |-> status, error |-> NoMessage]
RequestFailedLog(url, errorMessage) ==
    [level |-> "error", message |-> "API Request Failed", url |-> LoggedUrl(url),
     status |-> 0, error |-> errorMessage]

NoResult == [kind |-> "none", status |-> 0, error |-> NoMessage]
Returned(status) == [kind |-> "response", status |-> status, error |-> NoMessage]
Thrown(errorMessage) == [kind |-> "throw", status |-> 0, error |-> errorMessage]

\* HTTP statuses the upstream may answer with
Statuses == {200, 429, 500}
ResponseOk(status) == status >= 200 /\ status <= 299

-----------------------------------------------------------------------------
(* The state of SteamParser: its profile cache, and the locals of the          *)
(* operation (getSteamId, getProfileInfo, convertSteamIDToSteamID64) in       *)
(* progress.  One operation runs at a time.                                   *)

PROFILE_CACHE_DURATION == 21600000

\* An upstream response body: unparsable, or the JSON object it parses to
NoBody ==
    [parsable |-> FALSE, hasResponse |-> FALSE, success |-> 0, hasSteamid |-> FALSE,
     steamid |-> <<>>, message |-> "", hasPlayers |-> FALSE, players |-> <<>>]

\* communityvisibilitystate as the upstream may send it: a number, a string, or nothing
Visibility(type, n) == [type |-> type, n |-> n]

NoProfile == [nickname |-> "", profileUrl |-> "", avatarUrl |-> "", isPrivate |-> FALSE]

\* What an operation returned: a string, a ProfileInfo, null, or a thrown error
NoOpResult == [kind |-> "none", value |-> <<>>, data |-> NoProfile, error |-> NoMessage]
StringResult(value) == [NoOpResult EXCEPT !.kind = "string", !.value = value]
ProfileResult(data) == [NoOpResult EXCEPT !.kind = "profile", !.data = data]
NullResult == [NoOpResult EXCEPT !.kind = "null"]
ThrowResult(message) == [NoOpResult EXCEPT !.kind = "throw", !.error = message]

\* new Error(text)
ErrorOf(text) == [text |-> text, query |-> ""]

\* origin, settingsReads, requests, response, fetches, body, log, startedAt and
\* cacheAtStart are history: where the input came from, what the operation did
\* and what it saw
IdleOp ==
    [kind |-> "none", pc |-> "idle", identifier |-> <<>>, origin |-> <<>>,
     vanityUrl |-> <<>>, steamID64 |-> <<>>, body |-> NoBody, error |-> NoMessage,
     settingsReads |-> 0, requests |-> 0, response |-> NoResult, fetches |-> 0,
     log |-> <<>>, startedAt |-> 0,
     cacheAtStart |-> EmptyMap, result |-> NoOpResult]

\* SteamParser right after construction
ParserConstructed ==
    /\ profileCache = EmptyMap
    /\ op = IdleOp
    /\ opsStarted = 0
    /\ clockJumps = 0

-----------------------------------------------------------------------------
(* SteamParser.getInventory, MarketPrice.getItemPrice and the refresh route:  *)
(* state                                                                      *)
(*                                                                            *)
(* inv holds the locals of the getInventory call in progress or just          *)
(* finished, quote those of the getItemPrice call, route those of the handler *)
(* of POST /api/accounts/:id/refresh.  An array of items is an object: arrays *)
(* is the heap of these objects, and a cache entry, a result and a local of   *)
(* the route refer to an array by its index in the heap.                      *)

INVENTORY_CACHE_DURATION == 7200000
CACHE_DURATION == 86400000
CSGO_APP_ID == <<"7", "3", "0">>

\* A property of a JSON object that should hold a string: absent, or the text
Absent == [present |-> FALSE, chars |-> <<>>]
Text(chars) == [present |-> TRUE, chars |-> chars]
\* a string is truthy when it is not empty
IsTruthy(s) == s.present /\ Len(s.chars) > 0

\* A JavaScript number that is not negative, written in decimal (frac has no
\* trailing zero), NaN, or null
NullPrice == [kind |-> "null", units |-> 0, frac |-> <<>>]
NaN == [kind |-> "nan", units |-> 0, frac |-> <<>>]
Number(units, frac) == [kind |-> "number", units |-> units, frac |-> frac]

\* The body of an inventory response: unparsable, or the JSON object it parses to
NoInventoryBody ==
    [parsable |-> FALSE, success |-> FALSE, hasAssets |-> FALSE, assets |-> <<>>,
     hasDescriptions |-> FALSE, descriptions |-> <<>>]

\* The body of a price-overview response
NoPriceBody ==
    [parsable |-> FALSE, success |-> FALSE, lowest_price |-> Absent, median_price |-> Absent]

\* What getInventory returned: an array (by reference), a thrown error, or
\* nothing yet
NoArray == [kind |-> "none", ref |-> 0]
ArrayThrown == [kind |-> "throw", ref |-> 0]
ArrayResult(ref) == [kind |-> "array", ref |-> ref]

\* What getItemPrice returned: a number or null, a thrown error, or nothing yet
NoPriceResult == [kind |-> "none", price |-> NullPrice, error |-> NoMessage]
PriceResult(price) == [NoPriceResult EXCEPT !.kind = "value", !.price = price]
PriceThrown(error) == [NoPriceResult EXCEPT !.kind = "throw", !.error = error]

\* requests, response, fetches, body, log, startedAt, cacheAtStart,
\* arraysAtStart and returned are history: what the call did and saw, and the
\* items of the array it returned as they were when it returned
IdleInv ==
    [pc |-> "idle", accountId |-> 0, steamId |-> <<>>, appId |-> CSGO_APP_ID,
     cacheKey |-> <<>>, steamID64 |-> <<>>, body |-> NoInventoryBody, error |-> NoMessage,
     requests |-> 0, response |-> NoResult, fetches |-> 0, log |-> <<>>,
     startedAt |-> 0, cacheAtStart |-> EmptyMap, arraysAtStart |-> <<>>,
     result |-> NoArray, returned |-> <<>>]

IdleQuote ==
    [pc |-> "idle", appId |-> <<>>, marketHashName |-> Absent, currency |-> 0,
     cacheKey |-> <<>>, body |-> NoPriceBody, error |-> NoMessage,
     requests |-> 0, response |-> NoResult, fetches |-> 0, log |-> <<>>,
     startedAt |-> 0, cacheAtStart |-> EmptyMap, result |-> NoPriceResult]

\* what upsertCase was last called with by the handler, and the cases stored
\* just before the call (history)
NothingSaved == [called |-> FALSE, before |-> EmptyMap, item |-> 0]

\* the locals of the refresh handler and of the refresh-all handler: the account
\* in progress, the array getInventory gave for it and the position of the
\* pricing loop in it, the counters of the refresh handler, and the accounts
\* (queue), the position in them (k) and the results of the refresh-all handler.
\* failed: the outer catch of the handler was reached.
IdleRoute ==
    [pc |-> "idle", kind |-> "none", id |-> 0, steamId |-> <<>>, cases |-> 0, i |-> 0,
     currencyId |-> 0, successCount |-> 0, errorCount |-> 0,
     queue |-> <<>>, k |-> 0, results |-> <<>>, failed |-> FALSE, saved |-> NothingSaved]

\* SteamParser's inventory cache and MarketPrice right after construction,
\* and no handler running
ServicesConstructed ==
    /\ inventoryCache = EmptyMap
    /\ priceCache = EmptyMap
    /\ arrays = <<>>
    /\ inv = IdleInv
    /\ quote = IdleQuote
    /\ route = IdleRoute
    /\ currencyCalls = <<>>

\* MemStorage right after construction: no account, no case
StorageConstructed ==
    /\ accounts = EmptyMap
    /\ accountsCurrentId = 1
    /\ storedCases = EmptyMap
    /\ casesCurrentId = 1

\* Every operation of the storage resolves
StorageWorks == failing = {}

\* await storage.createLog(...) rejects, and the error it rejects with
CreateLogRejects == "createLog" \in failing
\* await storage.upsertCase(...) rejects
UpsertCaseRejects == "upsertCase" \in failing
StorageErrorMessage == ErrorOf("storage: the record could not be written")

-----------------------------------------------------------------------------
(* The state after construction *)

\* What the history keeps of a request handed to fetch
\* (previous: the time of the request handed to fetch before it, 0 if none)
Dispatched(rec, t, previous) ==
    [t |-> t, previous |-> previous, rm |-> rec.rm,
     inventory |-> IsInventoryRequest(rec.url), configured |-> requestDelay,
     quotaSeen |-> rec.quotaSeen, quotaPeriod |-> rec.quotaPeriod,
     quotaEntry |-> rec.quotaEntry]
NoDispatch ==
    [t |-> 0, previous |-> 0, rm |-> "parser", inventory |-> FALSE, configured |-> 0,
     quotaSeen |-> FALSE, quotaPeriod |-> 0, quotaEntry |-> 0]

IdleCall ==
    [pc |-> "idle", rm |-> "parser", url |-> VanityUrl("key=A"),
     options |-> NoOptions, callerOptions |-> NoOptions,
     enforceNow |-> 0, timeSinceLastRequest |-> 0, wakeAt |-> 0,
     currentAttempts |-> 0, status |-> 0, error |-> NoMessage,
     fetches |-> 0, throttled |-> 0, backoffs |-> <<>>,
     quotaSeen |-> FALSE, quotaPeriod |-> 0, quotaEntry |-> 0,
     log |-> <<>>, result |-> NoResult]

Init ==
    /\ now = StartTime
    /\ requestDelay \in RequestDelays
    /\ lastRequestTime = [m \in Managers |-> 0]
    /\ inventoryRequestsThisPeriod = [m \in Managers |-> 0]
    /\ periodStartTime = [m \in Managers |-> StartTime]
    /\ retryAttempts = [m \in Managers |-> EmptyMap]
    /\ userAgents = [m \in Managers |-> ConfiguredUserAgents]
    /\ calls = [c \in Calls |-> IdleCall]
    /\ started = 0
    /\ lastDispatch = [m \in Managers |-> NoDispatch]
    /\ processDispatch = NoDispatch
    /\ inventoryDispatches = [m \in Managers |-> <<>>]
    /\ steamApiKey = "KEY"
    /\ ParserConstructed
    /\ ServicesConstructed
    /\ StorageWorks
    /\ StorageConstructed
    /\ upstreamInventory = NoInventoryBody

InFlight(c) == calls[c].pc \notin {"idle", "done"}
NoCallInFlight == \A c \in Calls : ~InFlight(c)

\* the last n elements of a sequence
LastN(s, n) == IF Len(s) <= n THEN s ELSE SubSeq(s, Len(s) - n + 1, Len(s))

-----------------------------------------------------------------------------
(* enforceRateLimit *)

\* Lines 49-62 and 71: the code of enforceRateLimit that runs at time t, without
\* suspension, when makeRequest is entered with the locals rec.  quotaSeen,
\* quotaPeriod and quotaEntry are history: whether the call found the quota of
\* the period used up, the start of that period, and the time of the finding.
EnforceRateLimitEntry(c, rec, t) ==
    LET rm == rec.rm
        isInventoryRequest == IsInventoryRequest(rec.url)
        passed == PeriodPassed(t, periodStartTime[rm])
        count == IF passed THEN 0 ELSE inventoryRequestsThisPeriod[rm]
        periodStart == IF passed THEN t ELSE periodStartTime[rm]
        mustWait == isInventoryRequest /\ QuotaExhausted(count)
        seen == isInventoryRequest /\ QuotaExhausted(inventoryRequestsThisPeriod[rm])
    IN  /\ inventoryRequestsThisPeriod' = [inventoryRequestsThisPeriod EXCEPT ![rm] = count]
        /\ periodStartTime' = [periodStartTime EXCEPT ![rm] = periodStart]
        /\ calls' = [calls EXCEPT ![c] =
              [rec EXCEPT !.pc = IF mustWait THEN "quotaWait" ELSE "getSettings",
                          !.enforceNow = t,
                          !.wakeAt = IF mustWait THEN t + QuotaTimeToWait(t, periodStart) ELSE 0,
                          !.timeSinceLastRequest = t - lastRequestTime[rm],
                          !.quotaSeen = seen,
                          !.quotaPeriod = IF seen THEN periodStartTime[rm] ELSE 0,
                          !.quotaEntry = IF seen THEN t ELSE 0]]

\* A timer set by this.delay(ms) fires once its time has come, timers in order
TimerPcs == {"quotaWait", "spacingWait", "backoff"}
TimerDue(c) ==
    \A d \in Calls : calls[d].pc \in TimerPcs => calls[c].wakeAt <= calls[d].wakeAt

\* makeRequest(url, options) is called: line 86 enters enforceRateLimit
StartCall(c, rm, url, options) ==
    /\ ~InFlight(c)
    /\ started < MaxCalls
    /\ now <= MaxTime
    /\ started' = started + 1
    /\ EnforceRateLimitEntry(c, [IdleCall EXCEPT !.rm = rm, !.url = url, !.options = options,
                                                 !.callerOptions = options], now)
    /\ UNCHANGED <<now, requestDelay, userAgents, lastRequestTime, retryAttempts, lastDispatch,
                   processDispatch, inventoryDispatches>>
    /\ UNCHANGED parserVars
    /\ UNCHANGED refreshVars

\* Lines 62-72: the quota wait is over; reset the period, then ask for the settings
QuotaWake(c) ==
    LET rec == calls[c]
        t == Max(now, rec.wakeAt)
    IN  /\ rec.pc = "quotaWait"
        /\ TimerDue(c)
        /\ now' = t
        /\ inventoryRequestsThisPeriod' = [inventoryRequestsThisPeriod EXCEPT ![rec.rm] = 0]
        /\ periodStartTime' = [periodStartTime EXCEPT ![rec.rm] = t]
        /\ calls' = [calls EXCEPT ![c] =
              [rec EXCEPT !.pc = "getSettings",
                          !.timeSinceLastRequest = rec.enforceNow - lastRequestTime[rec.rm]]]
        /\ UNCHANGED <<requestDelay, userAgents, lastRequestTime, retryAttempts, started, lastDispatch,
                       processDispatch, inventoryDispatches>>
        /\ UNCHANGED parserVars
        /\ UNCHANGED refreshVars

\* Lines 88-93: enforceRateLimit has returned; read the retry counter, then log
BeginRequest(rec) ==
    [rec EXCEPT !.pc = "logRequest",
                !.currentAttempts = AttemptsOf(retryAttempts[rec.rm], RequestKey(rec.url))]

\* Lines 72-82: the settings arrive; wait for the rest of the minimum delay, if any
SettingsReturn(c, randomDelay) ==
    LET rec == calls[c]
        t == now + StorageLatency
        baseDelay == BaseDelay(requestDelay)
        minDelay == MinDelay(IsInventoryRequest(rec.url), baseDelay, randomDelay)
    IN  /\ rec.pc = "getSettings"
        /\ now' = t
        /\ calls' = [calls EXCEPT ![c] =
              IF rec.timeSinceLastRequest < minDelay
              THEN [rec EXCEPT !.pc = "spacingWait",
                               !.wakeAt = t + (minDelay - rec.timeSinceLastRequest)]
              ELSE BeginRequest(rec)]
        /\ UNCHANGED <<requestDelay, userAgents, lastRequestTime, inventoryRequestsThisPeriod,
                       periodStartTime, retryAttempts, started, lastDispatch,
                       processDispatch, inventoryDispatches>>
        /\ UNCHANGED parserVars
        /\ UNCHANGED refreshVars

\* Line 81 resumes: the minimum delay has passed
SpacingWake(c) ==
    LET rec == calls[c]
    IN  /\ rec.pc = "spacingWait"
        /\ TimerDue(c)
        /\ now' = Max(now, rec.wakeAt)
        /\ calls' = [calls EXCEPT ![c] = BeginRequest(rec)]
        /\ UNCHANGED <<requestDelay, userAgents, lastRequestTime, inventoryRequestsThisPeriod,
                       periodStartTime, retryAttempts, started, lastDispatch,
                       processDispatch, inventoryDispatches>>
        /\ UNCHANGED parserVars
        /\ UNCHANGED refreshVars

-----------------------------------------------------------------------------
(* makeRequest *)

\* Lines 93-122: the request record is logged; set the user agent, stamp
\* lastRequestTime, count an inventory request, drop the retry counter, fetch.
\* The createLog of line 92 stands before the try: when it rejects, makeRequest
\* rejects with its error and nothing is fetched.
RequestLogged(c, userAgent) ==
    LET rec == calls[c]
        rm == rec.rm
        t == now + StorageLatency
        isInventoryRequest == IsInventoryRequest(rec.url)
    IN  /\ rec.pc = "logRequest"
        /\ userAgent \in userAgents[rm]
        /\ now' = t
        /\ IF CreateLogRejects
           THEN /\ calls' = [calls EXCEPT ![c] =
                      [rec EXCEPT !.pc = "done", !.result = Thrown(StorageErrorMessage)]]
                /\ UNCHANGED <<lastRequestTime, inventoryRequestsThisPeriod, retryAttempts,
                               lastDispatch, processDispatch, inventoryDispatches>>
           ELSE /\ lastRequestTime' = [lastRequestTime EXCEPT ![rm] = t]
                /\ inventoryRequestsThisPeriod' =
                      [inventoryRequestsThisPeriod EXCEPT
                          ![rm] = IF isInventoryRequest THEN @ + 1 ELSE @]
                /\ retryAttempts' =
                      [retryAttempts EXCEPT ![rm] = ClearRetryCounter(@, RequestKey(rec.url))]
                /\ calls' = [calls EXCEPT ![c] =
                      [rec EXCEPT !.pc = "fetch",
                                  !.log = Append(@, RequestLog(rec.url)),
                                  !.options = WithUserAgent(rec.options, userAgent),
                                  !.fetches = @ + 1]]
                /\ lastDispatch' = [lastDispatch EXCEPT ![rm] = Dispatched(rec, t, @.t)]
                /\ processDispatch' = Dispatched(rec, t, processDispatch.t)
                /\ inventoryDispatches' =
                      [inventoryDispatches EXCEPT ![rm] =
                          IF isInventoryRequest
                          THEN LastN(Append(@, t), maxInventoryRequestsPer30Min + 1)
                          ELSE @]
        /\ UNCHANGED <<requestDelay, userAgents, periodStartTime, started>>
        /\ UNCHANGED parserVars
        /\ UNCHANGED refreshVars

\* Lines 122-152: fetch resolves with a response.  throttled (history) counts
\* the 429 responses this call has received.
FetchResponds(c, status) ==
    LET rec == calls[c]
        rm == rec.rm
        t == now + FetchLatency
        key == RequestKey(rec.url)
        got == [rec EXCEPT !.status = status,
                           !.throttled = IF status = 429 THEN @ + 1 ELSE @]
    IN  /\ rec.pc = "fetch"
        /\ now' = t
        /\ IF ResponseOk(status)
           THEN /\ calls' = [calls EXCEPT ![c] =
                      [got EXCEPT !.pc = "done", !.result = Returned(status)]]
                /\ UNCHANGED retryAttempts
           ELSE IF IsTooManyRequests(status)
           THEN IF MayRetry(rec.currentAttempts)
                THEN /\ retryAttempts' =
                           [retryAttempts EXCEPT ![rm] = MapSet(@, key, rec.currentAttempts + 1)]
                     /\ calls' = [calls EXCEPT ![c] =
                           [got EXCEPT !.pc = "backoff",
                                       !.wakeAt = t + BackoffDelay(rec.currentAttempts),
                                       !.backoffs = Append(@, BackoffDelay(rec.currentAttempts))]]
                ELSE /\ retryAttempts' = [retryAttempts EXCEPT ![rm] = MapDelete(@, key)]
                     /\ calls' = [calls EXCEPT ![c] =
                           [got EXCEPT !.pc = "logFailure", !.error = RateLimitMessage]]
           ELSE /\ calls' = [calls EXCEPT ![c] = [got EXCEPT !.pc = "logErrorResponse"]]
                /\ UNCHANGED retryAttempts
        /\ UNCHANGED <<requestDelay, userAgents, lastRequestTime, inventoryRequestsThisPeriod,
                       periodStartTime, started, lastDispatch, processDispatch,
                       inventoryDispatches>>
        /\ UNCHANGED parserVars
        /\ UNCHANGED refreshVars

\* Lines 122, 153: fetch rejects (a network-level failure)
FetchFails(c, errorMessage) ==
    LET rec == calls[c]
    IN  /\ rec.pc = "fetch"
        /\ errorMessage \in FetchErrorMessages(rec.url)
        /\ now' = now + FetchLatency
        /\ calls' = [calls EXCEPT ![c] =
              [rec EXCEPT !.pc = "logFailure", !.status = 0, !.error = errorMessage]]
        /\ UNCHANGED <<requestDelay, userAgents, lastRequestTime, inventoryRequestsThisPeriod,
                       periodStartTime, retryAttempts, started, lastDispatch,
                       processDispatch, inventoryDispatches>>
        /\ UNCHANGED parserVars
        /\ UNCHANGED refreshVars

\* Lines 141-152: the error-response record is logged; return the response.
\* This createLog stands inside the try: when it rejects, the catch takes over.
ErrorResponseLogged(c) ==
    LET rec == calls[c]
    IN  /\ rec.pc = "logErrorResponse"
        /\ now' = now + StorageLatency
        /\ calls' = [calls EXCEPT ![c] =
              IF CreateLogRejects
              THEN [rec EXCEPT !.pc = "logFailure", !.error = StorageErrorMessage]
              ELSE [rec EXCEPT !.pc = "done",
                               !.log = Append(@, ErrorResponseLog(rec.url, rec.status)),
                               !.result = Returned(rec.status)]]
        /\ UNCHANGED <<requestDelay, userAgents, lastRequestTime, inventoryRequestsThisPeriod,
                       periodStartTime, retryAttempts, started, lastDispatch,
                       processDispatch, inventoryDispatches>>
        /\ UNCHANGED parserVars
        /\ UNCHANGED refreshVars

\* Lines 153-166: the request-failed record is logged; rethrow.  When this
\* createLog rejects, makeRequest rejects with its error instead.
FailureLogged(c) ==
    LET rec == calls[c]
    IN  /\ rec.pc = "logFailure"
        /\ now' = now + StorageLatency
        /\ calls' = [calls EXCEPT ![c] =
              IF CreateLogRejects
              THEN [rec EXCEPT !.pc = "done", !.result = Thrown(StorageErrorMessage)]
              ELSE [rec EXCEPT !.pc = "done",
                               !.log = Append(@, RequestFailedLog(rec.url, rec.error)),
                               !.result = Thrown(rec.error)]]
        /\ UNCHANGED <<requestDelay, userAgents, lastRequestTime, inventoryRequestsThisPeriod,
                       periodStartTime, retryAttempts, started, lastDispatch,
                       processDispatch, inventoryDispatches>>
        /\ UNCHANGED parserVars
        /\ UNCHANGED refreshVars

\* Lines 132-133, 86: the backoff is over; makeRequest calls itself with the
\* same url and the same (already completed) options
BackoffWake(c) ==
    LET rec == calls[c]
        t == Max(now, rec.wakeAt)
    IN  /\ rec.pc = "backoff"
        /\ TimerDue(c)
        /\ now' = t
        /\ EnforceRateLimitEntry(c, rec, t)
        /\ UNCHANGED <<requestDelay, userAgents, lastRequestTime, retryAttempts, started, lastDispatch,
                       processDispatch, inventoryDispatches>>
        /\ UNCHANGED parserVars
        /\ UNCHANGED refreshVars

-----------------------------------------------------------------------------
(* The environment *)

\* Time passes while no request is being made
Idle ==
    /\ NoCallInFlight
    /\ now + IdleGap <= MaxTime
    /\ now' = now + IdleGap
    /\ UNCHANGED <<requestDelay, userAgents, lastRequestTime, inventoryRequestsThisPeriod, periodStartTime,
                   retryAttempts, calls, started, lastDispatch, processDispatch,
                   inventoryDispatches>>
    /\ UNCHANGED parserVars
    /\ UNCHANGED refreshVars

\* The requests the components make: SteamParser through its manager, MarketPrice
\* through its own; none of them passes options
Requests ==
    {<<"parser", VanityUrl("key=A&vanityurl=gaben")>>,
     <<"parser", InventoryUrl("76561197960287930")>>,
     <<"market", PriceUrl("appid=730&currency=1&market_hash_name=Chroma%203%20Case")>>}

\* One call at a time: a call starts only when the previous one has finished,
\* so one set of locals is in use
SerialCalls == {1}

Step(c) ==
    \/ QuotaWake(c)
    \/ \E randomDelay \in RandomDelays : SettingsReturn(c, randomDelay)
    \/ SpacingWake(c)
    \/ \E userAgent \in userAgents[calls[c].rm] : RequestLogged(c, userAgent)
    \/ \E status \in Statuses : FetchResponds(c, status)
    \/ \E errorMessage \in FetchErrorMessages(calls[c].url) : FetchFails(c, errorMessage)
    \/ ErrorResponseLogged(c)
    \/ FailureLogged(c)
    \/ BackoffWake(c)

Next ==
    \/ \E c \in SerialCalls, r \in Requests :
          NoCallInFlight /\ StartCall(c, r[1], r[2], NoOptions)
    \/ \E c \in SerialCalls : Step(c)
    \/ Idle

Spec == Init /\ [][Next]_vars

\* Calls made back to back.  The event loop runs every due timer and every
\* completed storage call, and a fetch ends with a response or a failure: a call
\* in flight keeps moving.
NextBusy ==
    \/ \E c \in SerialCalls, r \in Requests :
          NoCallInFlight /\ StartCall(c, r[1], r[2], NoOptions)
    \/ \E c \in SerialCalls : Step(c)

FairSpec == Init /\ [][NextBusy]_vars /\ \A c \in SerialCalls : WF_vars(Step(c))

\* Two requests of clients handled at the same time.  Express enters the
\* handler of a request when it arrives, and routes.ts holds no lock and no
\* queue that makes a handler wait for another one: the handler of the second
\* request reaches makeRequest while the call of the first one is suspended at
\* an await.  Handler 1 asks for the inventory of one account or for the price
\* of one item, handler 2 for those of another one; the two inventory requests
\* differ in their path, the two price requests in their query only.
OverlappingRequests(c) ==
    IF c = 1
    THEN {<<"parser", InventoryUrl("76561197960287930")>>,
          <<"market", PriceUrl("appid=730&currency=1&market_hash_name=Chroma%203%20Case")>>}
    ELSE {<<"parser", InventoryUrl("76561197960287931")>>,
          <<"market", PriceUrl("appid=730&currency=1&market_hash_name=Case%20Key")>>}

\* The steps of the calls of these handlers: the random part of the spacing is
\* the smallest one, and the upstream answers 200 or 429
OverlappingStep(c) ==
    \/ QuotaWake(c)
    \/ SettingsReturn(c, RandomDelayMin)
    \/ SpacingWake(c)
    \/ \E userAgent \in userAgents[calls[c].rm] : RequestLogged(c, userAgent)
    \/ \E status \in {200, 429} : FetchResponds(c, status)
    \/ FailureLogged(c)
    \/ BackoffWake(c)

\* a call that awaits a storage operation or a fetch
Pending(c) == InFlight(c) /\ calls[c].pc \notin TimerPcs

\* No storage operation and no fetch is pending for longer than a fetch takes:
\* while another call awaits one, a timer fires only when it is due by then
MayRun(c) ==
    calls[c].pc \in TimerPcs =>
        \/ \A d \in Calls \ {c} : ~Pending(d)
        \/ calls[c].wakeAt <= now + FetchLatency

InitOverlapping == Init /\ requestDelay = 0

NextOverlapping ==
    \/ \E c \in Calls : \E r \in OverlappingRequests(c) : StartCall(c, r[1], r[2], NoOptions)
    \/ \E c \in Calls : MayRun(c) /\ OverlappingStep(c)

SpecOverlapping == InitOverlapping /\ [][NextOverlapping]_vars

\* Callers that pass their own options, to managers that use the built-in pool
CallerOptions ==
    {NoOptions,
     [hasHeaders |-> TRUE, headers |-> EmptyHeaders],
     [hasHeaders |-> TRUE, headers |-> [h \in {"Accept"} |-> "application/json"]],
     [hasHeaders |-> TRUE, headers |-> [h \in {"User-Agent"} |-> "Caller/1.0"]],
     [hasHeaders |-> TRUE, headers |-> [h \in {"user-agent"} |-> "Caller/1.0"]],
     [hasHeaders |-> TRUE,
      headers |-> [h \in {"USER-AGENT", "Accept"} |->
                      IF h = "Accept" THEN "application/json" ELSE "Caller/1.0"]]}

InitHeaders ==
    /\ now = StartTime
    /\ requestDelay = 0
    /\ lastRequestTime = [m \in Managers |-> 0]
    /\ inventoryRequestsThisPeriod = [m \in Managers |-> 0]
    /\ periodStartTime = [m \in Managers |-> StartTime]
    /\ retryAttempts = [m \in Managers |-> EmptyMap]
    /\ userAgents = [m \in Managers |-> BuiltInUserAgents]
    /\ calls = [c \in Calls |-> IdleCall]
    /\ started = 0
    /\ lastDispatch = [m \in Managers |-> NoDispatch]
    /\ processDispatch = NoDispatch
    /\ inventoryDispatches = [m \in Managers |-> <<>>]
    /\ steamApiKey = "KEY"
    /\ ParserConstructed
    /\ ServicesConstructed
    /\ StorageWorks
    /\ StorageConstructed
    /\ upstreamInventory = NoInventoryBody

NextHeaders ==
    \/ \E c \in SerialCalls, options \in CallerOptions :
          NoCallInFlight /\ StartCall(c, "parser", InventoryUrl("76561197960287930"), options)
    \/ \E c \in SerialCalls : Step(c)

SpecHeaders == InitHeaders /\ [][NextHeaders]_vars

-----------------------------------------------------------------------------
(* Strings and integers of SteamParser (src/server/lib/steam-parser.ts).      *)
(* An identifier is a JavaScript string, modelled as a sequence of one-       *)
(* character strings.  BigInt values that are shifted or masked are kept as   *)
(* four 16-bit words, least significant first; BigInt values that are added   *)
(* and printed are kept as their decimal digits.                              *)

Digits == {"0", "1", "2", "3", "4", "5", "6", "7", "8", "9"}
DigitChars == <<"0", "1", "2", "3", "4", "5", "6", "7", "8", "9">>
DigitVal(ch) ==
    CASE ch = "0" -> 0 [] ch = "1" -> 1 [] ch = "2" -> 2 [] ch = "3" -> 3 [] ch = "4" -> 4
      [] ch = "5" -> 5 [] ch = "6" -> 6 [] ch = "7" -> 7 [] ch = "8" -> 8 [] ch = "9" -> 9
DigitChar(d) == DigitChars[d + 1]

\* \d+ : one or more decimal digits
IsDigits(s) == Len(s) >= 1 /\ \A i \in 1..Len(s) : s[i] \in Digits

\* s.slice(from - 1): the characters of s from position from on
From(s, from) == IF from > Len(s) THEN <<>> ELSE SubSeq(s, from, Len(s))

\* whether s has the characters of prefix at positions at .. at + Len(prefix) - 1
HasAt(s, at, prefix) ==
    /\ at + Len(prefix) - 1 <= Len(s)
    /\ \A i \in 1..Len(prefix) : s[at + i - 1] = prefix[i]

SteamPrefix == <<"S", "T", "E", "A", "M", "_">>
Id64Prefix == <<"7", "6", "5", "6", "1", "1", "9">>

\* the position of the first ch in s at or after from, 0 if there is none
IndexOf(s, ch, from) ==
    IF \E i \in from..Len(s) : s[i] = ch
    THEN CHOOSE i \in from..Len(s) : s[i] = ch /\ \A j \in from..(i - 1) : s[j] # ch
    ELSE 0

LegacyUniverseDigits == {"0", "1", "2", "3", "4", "5"}
\* /^STEAM_(\d+):([01]):(\d+)$/ (the match of convertSteamIDToSteamID64)
MatchesConvertiblePattern(s) ==
    /\ HasAt(s, 1, SteamPrefix)
    /\ LET c1 == IndexOf(s, ":", 7)
       IN  /\ c1 > 7
           /\ IsDigits(SubSeq(s, 7, c1 - 1))
           /\ Len(s) >= c1 + 3
           /\ s[c1 + 1] \in {"0", "1"}
           /\ s[c1 + 2] = ":"
           /\ IsDigits(From(s, c1 + 3))
\* /^STEAM_[0-5]:[01]:\d+$/ (the test of getSteamId)
MatchesLegacyUniverseZero(s) ==
    /\ Len(s) >= 11
    /\ HasAt(s, 1, SteamPrefix)
    /\ s[7] = "0"
    /\ s[8] = ":"
    /\ s[9] \in {"0", "1"}
    /\ s[10] = ":"
    /\ IsDigits(From(s, 11))
MatchesLegacy(s) ==
    /\ Len(s) >= 11
    /\ HasAt(s, 1, SteamPrefix)
    /\ s[7] \in LegacyUniverseDigits
    /\ s[8] = ":"
    /\ s[9] \in {"0", "1"}
    /\ s[10] = ":"
    /\ IsDigits(From(s, 11))

\* /^7656119\d{10}$/ (the test of getSteamId)
MatchesId64(s) ==
    /\ Len(s) = 17
    /\ HasAt(s, 1, Id64Prefix)
    /\ IsDigits(From(s, 8))

\* BigInt(string) for a string of decimal digits: four 16-bit words
RECURSIVE WordsOf(_, _)
WordsOf(s, w) ==
    IF s = <<>> THEN w
    ELSE LET t1 == w[1] * 10 + DigitVal(Head(s))
             t2 == w[2] * 10 + t1 \div 65536
             t3 == w[3] * 10 + t2 \div 65536
             t4 == w[4] * 10 + t3 \div 65536
         IN  WordsOf(Tail(s), <<t1 % 65536, t2 % 65536, t3 % 65536, t4 % 65536>>)
BigIntWords(s) == WordsOf(s, <<0, 0, 0, 0>>)

\* String(n) for a non-negative Number n
RECURSIVE NatChars(_)
NatChars(n) == IF n < 10 THEN <<DigitChar(n)>> ELSE NatChars(n \div 10) \o <<DigitChar(n % 10)>>
\* String(n) for a Number n
NumberChars(n) == IF n < 0 THEN <<"-">> \o NatChars(0 - n) ELSE NatChars(n)

\* Number((n >> 56n) & 0xFFn)
UniverseOf(w) == w[4] \div 256
\* accountIdLow & 1 where accountIdLow = Number(n & 0xFFFFFFFFn)
LowBit(w) == w[1] % 2
\* accountIdLow >> 1 on an unsigned 32-bit value (what >>> would give)
ShiftRightUnsigned(w) == w[2] * 32768 + w[1] \div 2
\* accountIdLow >> 1: JavaScript takes the operand as a signed 32-bit integer,
\* so a value of 2^31 or more is shifted as the negative number it wraps to
ShiftRightSigned(w) ==
    IF w[2] < 32768
    THEN w[2] * 32768 + w[1] \div 2
    ELSE (w[2] - 32768) * 32768 + w[1] \div 2 - 1073741824

\* convertSteamID64ToSteamID, for a string of decimal digits
ConvertSteamID64ToSteamID(steamID64) ==
    LET w == BigIntWords(steamID64)
        universe == UniverseOf(w)
        y == LowBit(w)
        z == ShiftRightSigned(w)
    IN  SteamPrefix \o NumberChars(universe) \o <<":">> \o NumberChars(y) \o <<":">>
            \o NumberChars(z)

\* the decimal digits of a string of digits, least significant first
DigitsOf(s) == [i \in 1..Len(s) |-> DigitVal(s[Len(s) - i + 1])]

\* BigInt addition on digits, least significant first
RECURSIVE AddDigits(_, _, _)
AddDigits(a, b, carry) ==
    IF a = <<>> /\ b = <<>>
    THEN IF carry = 0 THEN <<>> ELSE <<carry>>
    ELSE LET x == IF a = <<>> THEN 0 ELSE Head(a)
             y == IF b = <<>> THEN 0 ELSE Head(b)
             sum == x + y + carry
         IN  <<sum % 10>> \o AddDigits(IF a = <<>> THEN a ELSE Tail(a),
                                       IF b = <<>> THEN b ELSE Tail(b), sum \div 10)

\* BigInt.prototype.toString: no leading zeros
RECURSIVE BigIntChars(_)
BigIntChars(d) ==
    IF d = <<>> THEN <<"0">>
    ELSE IF d[Len(d)] = 0 THEN BigIntChars(SubSeq(d, 1, Len(d) - 1))
    ELSE [i \in 1..Len(d) |-> DigitChar(d[Len(d) - i + 1])]

\* BigInt('76561197960265728')
SteamID64Base == <<"7", "6", "5", "6", "1", "1", "9", "7", "9", "6", "0", "2", "6", "5", "7", "2", "8">>

ThrownValue(message) == [ok |-> FALSE, value |-> <<>>, error |-> message]
ReturnedValue(value) == [ok |-> TRUE, value |-> value, error |-> ""]

\* convertSteamIDToSteamID64: 76561197960265728 + z * 2 + y, or the thrown error
ConvertSteamIDToSteamID64(steamID) ==
    IF ~MatchesConvertiblePattern(steamID)
    THEN ThrownValue("Invalid SteamID format")
    ELSE LET c1 == IndexOf(steamID, ":", 7)
             y == DigitsOf(<<steamID[c1 + 1]>>)
             z == DigitsOf(From(steamID, c1 + 3))
         IN  ReturnedValue(BigIntChars(
                 AddDigits(AddDigits(DigitsOf(SteamID64Base), AddDigits(z, z, 0), 0), y, 0)))

-----------------------------------------------------------------------------
(* getSteamId *)

\* Bounds of the SteamParser model
MaxOps == 2                 \* SteamParser operations started during one run
MaxJumps == 1               \* long pauses between operations during one run

\* `${STEAM_API_BASE_URL}/ISteamUser/GetPlayerSummaries/v2/?key=${apiKey}&steamids=${steamID64}`
ProfileUrl(query) ==
    [origin |-> ApiOrigin, path |-> <<"ISteamUser", "GetPlayerSummaries", "v2", "">>,
     query |-> query]

\* /https?:\/\/steamcommunity.com\/(id|profiles)\// : the texts it matches
\* ("." stands for any character, as in the expression)
ProfileUrlPatterns ==
    {<<"h", "t", "t", "p", ":", "/", "/", "s", "t", "e", "a", "m", "c", "o", "m", "m", "u", "n", "i", "t", "y", ".", "c", "o", "m", "/", "i", "d", "/">>,
     <<"h", "t", "t", "p", "s", ":", "/", "/", "s", "t", "e", "a", "m", "c", "o", "m", "m", "u", "n", "i", "t", "y", ".", "c", "o", "m", "/", "i", "d", "/">>,
     <<"h", "t", "t", "p", ":", "/", "/", "s", "t", "e", "a", "m", "c", "o", "m", "m", "u", "n", "i", "t", "y", ".", "c", "o", "m", "/", "p", "r", "o", "f", "i", "l", "e", "s", "/">>,
     <<"h", "t", "t", "p", "s", ":", "/", "/", "s", "t", "e", "a", "m", "c", "o", "m", "m", "u", "n", "i", "t", "y", ".", "c", "o", "m", "/", "p", "r", "o", "f", "i", "l", "e", "s", "/">>}

MatchesAt(s, at, pattern) ==
    /\ at + Len(pattern) - 1 <= Len(s)
    /\ \A i \in 1..Len(pattern) : pattern[i] = "." \/ s[at + i - 1] = pattern[i]

\* identifier.replace(/https?:\/\/steamcommunity.com\/(id|profiles)\//, ''):
\* the first match, wherever it is, is cut out
StripProfileUrl(identifier) ==
    LET hits == {i \in 1..Len(identifier) :
                    \E pattern \in ProfileUrlPatterns : MatchesAt(identifier, i, pattern)}
    IN  IF hits = {} THEN identifier
        ELSE LET first == CHOOSE i \in hits : \A j \in hits : i <= j
                 pattern == CHOOSE q \in ProfileUrlPatterns : MatchesAt(identifier, first, q)
             IN  SubSeq(identifier, 1, first - 1) \o From(identifier, first + Len(pattern))

\* vanityUrl.split('/')[0]
FirstSegment(s) ==
    LET slash == IndexOf(s, "/", 1)
    IN  IF slash = 0 THEN s ELSE SubSeq(s, 1, slash - 1)

\* lines 57-58
CleanVanityUrl(identifier) == FirstSegment(StripProfileUrl(identifier))

\* !apiKey
ApiKeyNeverMissing(apiKey) == FALSE
ApiKeyMissing(apiKey) == apiKey = ""

\* data.response && data.response.success === 1
LookupSucceededLoose(body) == body.hasResponse /\ body.success # 0
LookupSucceeded(body) == body.hasResponse /\ body.success = 1

\* BigInt(value) accepts a string of decimal digits (and the empty string, as 0);
\* it throws for undefined and for any other text the upstream is taken to send
BigIntParsable(body) == body.hasSteamid /\ (body.steamid = <<>> \/ IsDigits(body.steamid))

\* 'Failed to resolve vanity URL: ' + (data.response?.message || 'Unknown error')
VanityFailureMessage(body) ==
    IF body.hasResponse /\ body.message = "No match"
    THEN ErrorOf("Failed to resolve vanity URL: No match")
    ELSE ErrorOf("Failed to resolve vanity URL: Unknown error")

\* The error response.json() rejects with.  node-fetch builds its message as
\* "invalid json response body at <url> reason: <cause>"
JsonErrorMessage(url) ==
    [text |-> "invalid json response body at <url> reason: Unexpected token",
     query |-> url.query]
BigIntErrorMessage == ErrorOf("Cannot convert value to a BigInt")

\* lines 71-75: the record getSteamId logs when it fails
ResolveFailureLog(identifier, error) ==
    [level |-> "error", message |-> "Failed to resolve Steam ID",
     identifier |-> identifier, error |-> error]

\* A new operation may start: none is in progress
OpIdle == op.pc \in {"idle", "done"}

\* the locals of an operation that starts now
FreshOp(kind, identifier, origin) ==
    [IdleOp EXCEPT !.kind = kind, !.pc = "start", !.identifier = identifier,
                   !.origin = origin, !.startedAt = now, !.cacheAtStart = profileCache]

\* the RequestManager fields and histories a SteamParser step leaves alone
managerFields == <<requestDelay, userAgents, lastRequestTime, retryAttempts, lastDispatch,
                   processDispatch, inventoryDispatches>>
quotaFields == <<inventoryRequestsThisPeriod, periodStartTime>>

\* Lines 36-49: getSteamId(identifier) is called and runs to its first await
StartResolve(c, identifier, origin) ==
    LET fresh == FreshOp("resolve", identifier, origin)
    IN  /\ OpIdle
        /\ opsStarted < MaxOps
        /\ opsStarted' = opsStarted + 1
        /\ calls' = [calls EXCEPT ![c] = IdleCall]
        /\ op' = IF MatchesLegacy(identifier)
                 THEN [fresh EXCEPT !.pc = "done", !.result = StringResult(identifier)]
                 ELSE IF MatchesId64(identifier)
                 THEN [fresh EXCEPT !.pc = "done",
                                    !.result = StringResult(ConvertSteamID64ToSteamID(identifier))]
                 ELSE [fresh EXCEPT !.pc = "resolveSettings"]
        /\ UNCHANGED <<now, started, steamApiKey, profileCache, clockJumps>>
        /\ UNCHANGED managerFields
        /\ UNCHANGED refreshVars
        /\ UNCHANGED quotaFields

\* Lines 49-61: the settings arrive; without an API key throw, otherwise clean
\* the identifier, build the URL and call makeRequest (which enters enforceRateLimit)
ResolveSettingsReturn(c) ==
    LET t == now + StorageLatency
        read == [op EXCEPT !.settingsReads = @ + 1]
    IN  /\ op.pc = "resolveSettings"
        /\ now' = t
        /\ IF ApiKeyMissing(steamApiKey)
           THEN /\ op' = [read EXCEPT !.pc = "resolveLog",
                                      !.error = ErrorOf("Steam API key not configured")]
                /\ UNCHANGED <<calls, started>>
                /\ UNCHANGED quotaFields
           ELSE /\ op' = [read EXCEPT !.pc = "resolveRequest",
                                      !.vanityUrl = CleanVanityUrl(op.identifier),
                                      !.requests = @ + 1]
                /\ started' = started + 1
                /\ EnforceRateLimitEntry(c,
                      [IdleCall EXCEPT !.rm = "parser",
                                       !.url = VanityUrl("key=KEY&vanityurl=NAME")], t)
        /\ UNCHANGED <<steamApiKey, profileCache, opsStarted, clockJumps>>
        /\ UNCHANGED managerFields
        /\ UNCHANGED refreshVars

\* Lines 61-68: makeRequest has returned or thrown (its locals are gone); read
\* the body as JSON and convert the steamid it gives
ResolveResponse(c, body) ==
    LET r == calls[c].result
        back == [op EXCEPT !.response = r, !.fetches = calls[c].fetches]
        got == [back EXCEPT !.body = body]
    IN  /\ op.pc = "resolveRequest"
        /\ calls[c].pc = "done"
        /\ op' = IF r.kind = "throw" THEN [back EXCEPT !.pc = "resolveLog", !.error = r.error]
                 ELSE IF ~body.parsable
                 THEN [got EXCEPT !.pc = "resolveLog", !.error = JsonErrorMessage(calls[c].url)]
                 ELSE IF LookupSucceeded(body)
                 THEN IF BigIntParsable(body)
                      THEN [got EXCEPT !.pc = "done",
                                       !.result = StringResult(ConvertSteamID64ToSteamID(body.steamid))]
                      ELSE [got EXCEPT !.pc = "resolveLog", !.error = BigIntErrorMessage]
                 ELSE [got EXCEPT !.pc = "resolveLog", !.error = VanityFailureMessage(body)]
        /\ calls' = [calls EXCEPT ![c] = IdleCall]
        /\ UNCHANGED <<now, started, steamApiKey, profileCache, opsStarted, clockJumps>>
        /\ UNCHANGED managerFields
        /\ UNCHANGED refreshVars
        /\ UNCHANGED quotaFields

\* Lines 69-77: the failure is logged; return null
ResolveLogged ==
    /\ op.pc = "resolveLog"
    /\ now' = now + StorageLatency
    /\ op' = IF CreateLogRejects
             THEN [op EXCEPT !.pc = "done", !.result = ThrowResult(StorageErrorMessage)]
             ELSE [op EXCEPT !.pc = "done",
                             !.log = Append(@, ResolveFailureLog(op.identifier, op.error)),
                             !.result = NullResult]
    /\ UNCHANGED <<calls, started, steamApiKey, profileCache, opsStarted, clockJumps>>
    /\ UNCHANGED managerFields
    /\ UNCHANGED refreshVars
    /\ UNCHANGED quotaFields

-----------------------------------------------------------------------------
(* getProfileInfo *)

\* (Date.now() - cached.timestamp) < this.PROFILE_CACHE_DURATION
CacheFreshInclusive(t, timestamp) == t - timestamp <= PROFILE_CACHE_DURATION
CacheFresh(t, timestamp) == t - timestamp < PROFILE_CACHE_DURATION

\* data.response && data.response.players && data.response.players.length > 0
PlayersFound(body) == body.hasResponse /\ body.hasPlayers /\ Len(body.players) > 0

\* player.communityvisibilitystate !== 3 (strict: the string "3" is not the number 3)
IsPrivateLoose(visibility) == ~(visibility.type \in {"number", "string"} /\ visibility.n = 3)
IsPrivate(visibility) == ~(visibility.type = "number" /\ visibility.n = 3)

\* lines 123-128
ProfileData(player) ==
    [nickname |-> player.personaname, profileUrl |-> player.profileurl,
     avatarUrl |-> player.avatarmedium,
     isPrivate |-> IsPrivate(player.communityvisibilitystate)]

\* line 147: what getProfileInfo gives its caller when it has caught an error
ProfileFailureRethrown(error) == ThrowResult(error)
ProfileFailureResult(error) == NullResult

\* lines 142-146: the record getProfileInfo logs when it fails
ProfileFailureLog(steamId, error) ==
    [level |-> "error", message |-> "Failed to get profile info",
     identifier |-> steamId, error |-> error]

\* Lines 100-107: getProfileInfo(steamId) is called; a fresh cache entry is
\* returned at once, otherwise the settings are asked for
StartFetchProfile(c, steamId, origin) ==
    LET fresh == FreshOp("profile", steamId, origin)
        hit == MapHas(profileCache, steamId)
                   /\ CacheFresh(now, profileCache[steamId].timestamp)
    IN  /\ OpIdle
        /\ opsStarted < MaxOps
        /\ opsStarted' = opsStarted + 1
        /\ calls' = [calls EXCEPT ![c] = IdleCall]
        /\ op' = IF hit
                 THEN [fresh EXCEPT !.pc = "done",
                                    !.result = ProfileResult(profileCache[steamId].data)]
                 ELSE [fresh EXCEPT !.pc = "profileSettings"]
        /\ UNCHANGED <<now, started, steamApiKey, profileCache, clockJumps>>
        /\ UNCHANGED managerFields
        /\ UNCHANGED refreshVars
        /\ UNCHANGED quotaFields

\* Lines 107-118: the settings arrive; without an API key or with a steamId that
\* cannot be converted throw, otherwise build the URL and call makeRequest
ProfileSettingsReturn(c) ==
    LET t == now + StorageLatency
        read == [op EXCEPT !.settingsReads = @ + 1]
        steamID64 == ConvertSteamIDToSteamID64(op.identifier)
    IN  /\ op.pc = "profileSettings"
        /\ now' = t
        /\ IF ApiKeyMissing(steamApiKey) \/ ~steamID64.ok
           THEN /\ op' = [read EXCEPT !.pc = "profileLog",
                                      !.error = IF ApiKeyMissing(steamApiKey)
                                                THEN ErrorOf("Steam API key not configured")
                                                ELSE ErrorOf(steamID64.error)]
                /\ UNCHANGED <<calls, started>>
                /\ UNCHANGED quotaFields
           ELSE /\ op' = [read EXCEPT !.pc = "profileRequest",
                                      !.steamID64 = steamID64.value,
                                      !.requests = @ + 1]
                /\ started' = started + 1
                /\ EnforceRateLimitEntry(c,
                      [IdleCall EXCEPT !.rm = "parser",
                                       !.url = ProfileUrl("key=KEY&steamids=ID64")], t)
        /\ UNCHANGED <<steamApiKey, profileCache, opsStarted, clockJumps>>
        /\ UNCHANGED managerFields
        /\ UNCHANGED refreshVars

\* Lines 118-139: makeRequest has returned or thrown (its locals are gone); read
\* the body as JSON, build the ProfileInfo of the first player and cache it
ProfileResponse(c, body) ==
    LET r == calls[c].result
        back == [op EXCEPT !.response = r, !.fetches = calls[c].fetches]
        got == [back EXCEPT !.body = body]
        found == ~(r.kind = "throw") /\ body.parsable /\ PlayersFound(body)
        profileData == ProfileData(body.players[1])
    IN  /\ op.pc = "profileRequest"
        /\ calls[c].pc = "done"
        /\ op' = IF r.kind = "throw" THEN [back EXCEPT !.pc = "profileLog", !.error = r.error]
                 ELSE IF ~body.parsable
                 THEN [got EXCEPT !.pc = "profileLog", !.error = JsonErrorMessage(calls[c].url)]
                 ELSE IF PlayersFound(body)
                 THEN [got EXCEPT !.pc = "done", !.result = ProfileResult(profileData)]
                 ELSE [got EXCEPT !.pc = "profileLog",
                                  !.error = ErrorOf("Player not found or API returned no data")]
        /\ profileCache' = IF found
                           THEN MapSet(profileCache, op.identifier,
                                       [data |-> profileData, timestamp |-> now])
                           ELSE profileCache
        /\ calls' = [calls EXCEPT ![c] = IdleCall]
        /\ UNCHANGED <<now, started, steamApiKey, opsStarted, clockJumps>>
        /\ UNCHANGED managerFields
        /\ UNCHANGED refreshVars
        /\ UNCHANGED quotaFields

\* Lines 140-148: the failure is logged; return null
ProfileLogged ==
    /\ op.pc = "profileLog"
    /\ now' = now + StorageLatency
    /\ op' = IF CreateLogRejects
             THEN [op EXCEPT !.pc = "done", !.result = ThrowResult(StorageErrorMessage)]
             ELSE [op EXCEPT !.pc = "done",
                             !.log = Append(@, ProfileFailureLog(op.identifier, op.error)),
                             !.result = ProfileFailureResult(op.error)]
    /\ UNCHANGED <<calls, started, steamApiKey, profileCache, opsStarted, clockJumps>>
    /\ UNCHANGED managerFields
    /\ UNCHANGED refreshVars
    /\ UNCHANGED quotaFields

\* convertSteamIDToSteamID64(steamID) is applied (it has no await)
ConvertApplied(c, steamID, origin) ==
    LET fresh == FreshOp("convert", steamID, origin)
        steamID64 == ConvertSteamIDToSteamID64(steamID)
    IN  /\ OpIdle
        /\ opsStarted < MaxOps
        /\ opsStarted' = opsStarted + 1
        /\ calls' = [calls EXCEPT ![c] = IdleCall]
        /\ op' = [fresh EXCEPT !.pc = "done",
                               !.result = IF steamID64.ok
                                          THEN StringResult(steamID64.value)
                                          ELSE ThrowResult(ErrorOf(steamID64.error))]
        /\ UNCHANGED <<now, started, steamApiKey, profileCache, clockJumps>>
        /\ UNCHANGED managerFields
        /\ UNCHANGED refreshVars
        /\ UNCHANGED quotaFields

\* Time passes while SteamParser holds a cached profile and does nothing; what
\* the last operation left in its locals is gone
Elapse(c, gap) ==
    /\ OpIdle
    /\ profileCache # EmptyMap
    /\ clockJumps < MaxJumps
    /\ clockJumps' = clockJumps + 1
    /\ now' = now + gap
    /\ op' = IdleOp
    /\ calls' = [calls EXCEPT ![c] = IdleCall]
    /\ UNCHANGED <<started, steamApiKey, profileCache, opsStarted>>
    /\ UNCHANGED managerFields
    /\ UNCHANGED refreshVars
    /\ UNCHANGED quotaFields

-----------------------------------------------------------------------------
(* The callers of SteamParser and the upstream *)

\* STEAM_u:y:z
LegacyId(u, y, z) ==
    SteamPrefix \o NatChars(u) \o <<":">> \o NatChars(y) \o <<":">> \o NatChars(z)

\* 76561197960265728 + a, for an account id a given in decimal digits
NumericId(a) == BigIntChars(AddDigits(DigitsOf(SteamID64Base), DigitsOf(a), 0))

\* account numbers z (2z + y is the 32-bit account id): a small one, the first
\* whose 64-bit form is 76561200000000000 or more, and the largest
AccountNumbers == {11101, 1019867136, 2147483647}
Universes == {0, 1, 5}
LegacyIds == {LegacyId(u, y, z) : u \in Universes, y \in {0, 1}, z \in AccountNumbers}

\* account ids a: small ones, the ones around 76561200000000000, around 2^31
\* and the largest
AccountIds ==
    {<<"2", "2", "2", "0", "2">>,
     <<"2", "0", "3", "9", "7", "3", "4", "2", "7", "1">>,
     <<"2", "0", "3", "9", "7", "3", "4", "2", "7", "2">>,
     <<"2", "1", "4", "7", "4", "8", "3", "6", "4", "8">>,
     <<"4", "2", "9", "4", "9", "6", "7", "2", "9", "5">>}
NumericIds == {NumericId(a) : a \in AccountIds}

\* vanity names and profile URLs
VanityIds ==
    {<<"g", "a", "b", "e", "n">>,
     <<"h", "t", "t", "p", "s", ":", "/", "/", "s", "t", "e", "a", "m", "c", "o", "m", "m", "u", "n", "i", "t", "y", ".", "c", "o", "m", "/", "i", "d", "/", "g", "a", "b", "e", "n", "/">>}

\* texts convertSteamIDToSteamID64 may be given besides the ids above
OtherSteamIds ==
    {LegacyId(7, 0, 5), LegacyId(12, 1, 5), LegacyId(0, 2, 5),
     <<"S", "T", "E", "A", "M", "_", "0", ":", "1", ":">>, <<"7", "6", "5", "6", "1", "1", "9", "7", "9", "6", "0", "2", "8", "7", "9", "3", "0">>}

\* the bodies the vanity endpoint may answer with
VanityBodies ==
    {NoBody,
     [NoBody EXCEPT !.parsable = TRUE],
     [NoBody EXCEPT !.parsable = TRUE, !.hasResponse = TRUE, !.success = 42,
                    !.message = "No match"],
     [NoBody EXCEPT !.parsable = TRUE, !.hasResponse = TRUE, !.success = 1],
     [NoBody EXCEPT !.parsable = TRUE, !.hasResponse = TRUE, !.success = 1,
                    !.hasSteamid = TRUE, !.steamid = NumericId(<<"2", "2", "2", "0", "2">>)],
     [NoBody EXCEPT !.parsable = TRUE, !.hasResponse = TRUE, !.success = 1,
                    !.hasSteamid = TRUE, !.steamid = NumericId(<<"2", "1", "4", "7", "4", "8", "3", "6", "4", "8">>)]}

Visibilities == {Visibility("number", 1), Visibility("number", 3), Visibility("string", 3),
                 Visibility("undefined", 0)}
Player(visibility) ==
    [personaname |-> "gaben", profileurl |-> "https://steamcommunity.com/id/gaben/",
     avatarmedium |-> "https://avatars.steamstatic.com/gaben_medium.jpg",
     communityvisibilitystate |-> visibility]

\* the bodies the player-summary endpoint may answer with
ProfileBodies ==
    {NoBody,
     [NoBody EXCEPT !.parsable = TRUE],
     [NoBody EXCEPT !.parsable = TRUE, !.hasResponse = TRUE, !.hasPlayers = TRUE]}
    \cup {[NoBody EXCEPT !.parsable = TRUE, !.hasResponse = TRUE, !.hasPlayers = TRUE,
                         !.players = <<Player(v)>>] : v \in Visibilities}

\* the ids getProfileInfo is called with by hand
ProfileIds == {LegacyId(0, 1, 11101), LegacyId(12, 1, 5), <<"g", "a", "b", "e", "n">>}

\* the pauses between operations: just short of the cache duration, and just it
Pauses == {PROFILE_CACHE_DURATION - 1, PROFILE_CACHE_DURATION}

\* what the last operation returned, when it returned a string
LastString == IF op.pc = "done" /\ op.result.kind = "string" THEN {op.result.value} ELSE {}

\* The steps of a makeRequest call for a URL of the API host: it is not an
\* inventory request, so the call never waits for the inventory quota.  The
\* upstream throttles every fetch of a call or none of them.
ApiRequestStep(c) ==
    \/ \E randomDelay \in RandomDelays : SettingsReturn(c, randomDelay)
    \/ SpacingWake(c)
    \/ \E userAgent \in userAgents[calls[c].rm] : RequestLogged(c, userAgent)
    \/ \E status \in Statuses :
          (status = 429 \/ calls[c].throttled = 0) /\ FetchResponds(c, status)
    \/ \E errorMessage \in FetchErrorMessages(calls[c].url) :
          calls[c].throttled = 0 /\ FetchFails(c, errorMessage)
    \/ ErrorResponseLogged(c)
    \/ FailureLogged(c)
    \/ BackoffWake(c)

InitParser ==
    /\ now = StartTime
    /\ requestDelay = 0
    /\ lastRequestTime = [m \in Managers |-> 0]
    /\ inventoryRequestsThisPeriod = [m \in Managers |-> 0]
    /\ periodStartTime = [m \in Managers |-> StartTime]
    /\ retryAttempts = [m \in Managers |-> EmptyMap]
    /\ userAgents = [m \in Managers |-> ConfiguredUserAgents]
    /\ calls = [c \in Calls |-> IdleCall]
    /\ started = 0
    /\ lastDispatch = [m \in Managers |-> NoDispatch]
    /\ processDispatch = NoDispatch
    /\ inventoryDispatches = [m \in Managers |-> <<>>]
    /\ steamApiKey \in {"", "KEY"}
    /\ ParserConstructed
    /\ ServicesConstructed
    /\ StorageWorks
    /\ StorageConstructed
    /\ upstreamInventory = NoInventoryBody

\* getSteamId is called with an identifier of any form, or with what
\* convertSteamIDToSteamID64 has just returned; getProfileInfo and
\* convertSteamIDToSteamID64 with an id, or with what getSteamId has just returned
NextParser ==
    \/ \E c \in SerialCalls, identifier \in LegacyIds \cup NumericIds \cup VanityIds :
          StartResolve(c, identifier, <<>>)
    \/ \E c \in SerialCalls, identifier \in LastString :
          op.kind = "convert" /\ StartResolve(c, identifier, op.identifier)
    \/ \E c \in SerialCalls : ResolveSettingsReturn(c)
    \/ \E c \in SerialCalls, body \in VanityBodies : ResolveResponse(c, body)
    \/ ResolveLogged
    \/ \E c \in SerialCalls, steamId \in ProfileIds : StartFetchProfile(c, steamId, <<>>)
    \/ \E c \in SerialCalls, steamId \in LastString :
          op.kind = "resolve" /\ StartFetchProfile(c, steamId, op.identifier)
    \/ \E c \in SerialCalls : ProfileSettingsReturn(c)
    \/ \E c \in SerialCalls, body \in ProfileBodies : ProfileResponse(c, body)
    \/ ProfileLogged
    \/ \E c \in SerialCalls, steamID \in LegacyIds \cup OtherSteamIds :
          ConvertApplied(c, steamID, <<>>)
    \/ \E c \in SerialCalls, steamID \in LastString :
          op.kind = "resolve" /\ ConvertApplied(c, steamID, op.identifier)
    \/ \E c \in SerialCalls, gap \in Pauses : Elapse(c, gap)
    \/ \E c \in SerialCalls : ApiRequestStep(c)

SpecParser == InitParser /\ [][NextParser]_vars

-----------------------------------------------------------------------------
(* getInventory: the pure parts *)

\* s.includes(sub)
Includes(s, sub) == \E i \in 1..(Len(s) - Len(sub) + 1) : HasAt(s, i, sub)

CASE_IDENTIFIERS ==
    <<<<"C", "a", "s", "e">>, <<"W", "e", "a", "p", "o", "n", " ", "C", "a", "s", "e">>, <<"C", "o", "n", "t", "a", "i", "n", "e", "r">>, <<"e", "S", "p", "o", "r", "t", "s", " ", "C", "a", "s", "e">>, <<"O", "p", "e", "r", "a", "t", "i", "o", "n">>>>
KeyWord == <<"K", "e", "y">>
GraffitiWord == <<"G", "r", "a", "f", "f", "i", "t", "i">>

\* item.name || item.market_hash_name || ''
NameOf(item) ==
    IF IsTruthy(item.name) THEN item.name.chars
    ELSE IF IsTruthy(item.market_hash_name) THEN item.market_hash_name.chars
    ELSE <<>>

\* isCase (lines 17-22)
isCaseKeepingKeys(item) ==
    LET name == NameOf(item)
    IN  \E k \in 1..Len(CASE_IDENTIFIERS) :
            Includes(name, CASE_IDENTIFIERS[k]) /\ ~Includes(name, GraffitiWord)
isCase(item) ==
    LET name == NameOf(item)
    IN  \E k \in 1..Len(CASE_IDENTIFIERS) :
            /\ Includes(name, CASE_IDENTIFIERS[k])
            /\ ~Includes(name, KeyWord)
            /\ ~Includes(name, GraffitiWord)

\* the white space parseInt skips (the inputs of the model hold no other)
RECURSIVE SkipSpaces(_)
SkipSpaces(s) == IF s # <<>> /\ Head(s) = " " THEN SkipSpaces(Tail(s)) ELSE s

\* the longest prefix of s made of decimal digits
RECURSIVE DigitPrefix(_)
DigitPrefix(s) ==
    IF s # <<>> /\ Head(s) \in Digits THEN <<Head(s)>> \o DigitPrefix(Tail(s)) ELSE <<>>

\* the number a string of decimal digits writes
RECURSIVE NatOf(_)
NatOf(d) ==
    IF d = <<>> THEN 0 ELSE NatOf(SubSeq(d, 1, Len(d) - 1)) * 10 + DigitVal(d[Len(d)])

\* parseInt(amount, 10): an integer, or NaN.  A missing amount is undefined,
\* which parseInt reads as the text "undefined"
NotAnInteger == [nan |-> TRUE, n |-> 0]
ParseInt(amount) ==
    IF ~amount.present THEN NotAnInteger
    ELSE LET s == SkipSpaces(amount.chars)
             signed == s # <<>> /\ Head(s) \in {"-", "+"}
             negative == s # <<>> /\ Head(s) = "-"
             digits == DigitPrefix(IF signed THEN Tail(s) ELSE s)
         IN  IF digits = <<>> THEN NotAnInteger
             ELSE [nan |-> FALSE, n |-> IF negative THEN 0 - NatOf(digits) ELSE NatOf(digits)]

\* parseInt(asset.amount, 10) || 1 : NaN and 0 are falsy
Quantity(amount) ==
    LET parsed == ParseInt(amount)
    IN  IF parsed.nan \/ parsed.n = 0 THEN 1 ELSE parsed.n

\* `${x.classid}_${x.instanceid}`
DescriptionKey(x) == x.classid \o <<"_">> \o x.instanceid

\* lines 206-212: the Map the forEach builds; a later description replaces an
\* earlier one stored under the same key
RECURSIVE DescriptionsMap(_, _)
DescriptionsMap(descriptions, m) ==
    IF descriptions = <<>> THEN m
    ELSE DescriptionsMap(Tail(descriptions),
                         MapSet(m, DescriptionKey(Head(descriptions)), Head(descriptions)))

\* `https://steamcommunity-a.akamaihd.net/economy/image/${desc.icon_url}/128x128`
ImageUrl(icon_url) ==
    [base |-> "https://steamcommunity-a.akamaihd.net/economy/image/", icon |-> icon_url,
     size |-> "128x128"]

\* lines 220-231: the item built for an asset and its description
CaseOf(accountId, appId, asset, desc) ==
    [accountId |-> accountId, name |-> desc.name, appId |-> appId,
     assetId |-> asset.assetid, classId |-> asset.classid, instanceId |-> asset.instanceid,
     marketHashName |-> desc.market_hash_name, imageUrl |-> ImageUrl(desc.icon_url),
     quantity |-> Quantity(asset.amount), price |-> NullPrice]

\* lines 215-233: the loop over the assets
RECURSIVE Cases(_, _, _, _)
Cases(accountId, appId, assets, descriptions) ==
    IF assets = <<>> THEN <<>>
    ELSE LET asset == Head(assets)
             key == DescriptionKey(asset)
             rest == Cases(accountId, appId, Tail(assets), descriptions)
         IN  IF MapHas(descriptions, key) /\ isCase(descriptions[key])
             THEN <<CaseOf(accountId, appId, asset, descriptions[key])>> \o rest
             ELSE rest

\* `${steamId}_${appId}`
InventoryCacheKey(steamId, appId) == steamId \o <<"_">> \o appId

\* (Date.now() - cached.timestamp) < this.INVENTORY_CACHE_DURATION
InventoryCacheFresh(t, timestamp) == t - timestamp < INVENTORY_CACHE_DURATION

\* cached.data.map(item => ({ ...item, accountId })): new objects in a new array
Rebound(items, accountId) ==
    [i \in 1..Len(items) |-> [items[i] EXCEPT !.accountId = accountId]]

\* !data.success || !data.assets || !data.descriptions does not hold
InventoryCompleteLoose(body) == body.success /\ body.hasAssets
InventoryComplete(body) == body.success /\ body.hasAssets /\ body.hasDescriptions

\* lines 191-196: the error thrown for a response that is not ok
PrivateMessage == ErrorOf("Inventory is private or unavailable")
HttpErrorMessage(status) ==
    ErrorOf(CASE status = 403 -> "HTTP error 403: Forbidden"
              [] status = 429 -> "HTTP error 429: Too Many Requests"
              [] status = 500 -> "HTTP error 500: Internal Server Error"
              [] OTHER -> "HTTP error")
InventoryStatusError(status) ==
    IF status = 403 THEN PrivateMessage ELSE HttpErrorMessage(status)

\* the error getInventory catches for a makeRequest result r and, when the
\* response is ok, its body
InventoryFailure(r, body, url) ==
    IF r.kind = "throw" THEN r.error
    ELSE IF ~ResponseOk(r.status) THEN InventoryStatusError(r.status)
    ELSE IF ~body.parsable THEN JsonErrorMessage(url)
    ELSE ErrorOf("Failed to parse inventory data")

\* message.includes('private'): of the messages getInventory can catch, the one
\* it throws for a 403 response is the only one that holds the word
MarksPrivateNever(error) == FALSE
MarksPrivate(error) == error.text = "Inventory is private or unavailable"

\* line 255: what getInventory gives its caller when it has caught an error,
\* ref being the new empty array
InventoryFailureRethrown(ref) == [kind |-> "throw", ref |-> 0]
InventoryFailureResult(ref) == ArrayResult(ref)

\* lines 244-248: the record getInventory logs when it fails
InventoryFailureLog(accountId, steamId, appId, error) ==
    [level |-> "error", message |-> "Failed to parse inventory",
     accountId |-> accountId, steamId |-> steamId, appId |-> appId, error |-> error]

\* MemStorage.updateAccount(id, { isPrivate: flag })
UpdateAccountPrivacy(table, id, flag) ==
    IF MapHas(table, id) THEN [table EXCEPT ![id].isPrivate = flag] ELSE table

\* c.accountId === caseItem.accountId && c.appId === caseItem.appId &&
\* c.assetId === caseItem.assetId
SameCase(c, caseItem) ==
    c.accountId = caseItem.accountId /\ c.appId = caseItem.appId /\ c.assetId = caseItem.assetId

\* MemStorage.upsertCase (DatabaseStorage.upsertCase selects, then updates or
\* inserts, alike): the first stored case with the item's accountId, appId and
\* assetId is overwritten under its id ({...existingCase, ...caseUpdate}); when
\* there is none the item is stored under the next id.  The ids grow with the
\* insertions, so the first case found is the one with the smallest id.
UpsertCaseAlwaysCreates(table, currentId, caseItem) ==
    [cases |-> MapSet(table, currentId, caseItem), currentId |-> currentId + 1]
UpsertCase(table, currentId, caseItem) ==
    LET found == {id \in DOMAIN table : SameCase(table[id], caseItem)}
        existing == CHOOSE id \in found : \A other \in found : id <= other
    IN  IF found # {}
        THEN [cases |-> [table EXCEPT ![existing] = caseItem], currentId |-> currentId]
        ELSE [cases |-> MapSet(table, currentId, caseItem), currentId |-> currentId + 1]

\* MemStorage.deleteCasesByAccountId
DeleteCasesByAccountId(table, accountId) ==
    [id \in {x \in DOMAIN table : table[x].accountId # accountId} |-> table[id]]

\* MemStorage.getAccounts: Array.from(this.accounts.values()), the accounts in
\* the order of their insertion, which is the order of their ids
RECURSIVE AccountList(_)
AccountList(table) ==
    IF DOMAIN table = {}
    THEN <<>>
    ELSE LET first == CHOOSE id \in DOMAIN table : \A other \in DOMAIN table : id <= other
         IN  <<[id |-> first, steamId |-> table[first].steamId,
                isPrivate |-> table[first].isPrivate]>>
             \o AccountList(MapDelete(table, first))

\* an entry of the results of the refresh-all handler
ResultEntry(account, status, casesFound) ==
    [accountId |-> account.id, steamId |-> account.steamId, status |-> status,
     casesFound |-> casesFound]

-----------------------------------------------------------------------------
(* getItemPrice: the pure parts *)

\* String(x) of a string or of undefined
StringOf(x) == IF x.present THEN x.chars ELSE <<"u", "n", "d", "e", "f", "i", "n", "e", "d">>

\* `${appId}_${marketHashName}_${currency}`
PriceCacheKeyWithoutCurrency(appId, marketHashName, currency) ==
    appId \o <<"_">> \o StringOf(marketHashName)
PriceCacheKey(appId, marketHashName, currency) ==
    appId \o <<"_">> \o StringOf(marketHashName) \o <<"_">> \o NumberChars(currency)

\* (Date.now() - cachedPrice.timestamp) < this.CACHE_DURATION
PriceCacheFresh(t, timestamp) == t - timestamp < CACHE_DURATION

\* priceString.replace(/[^\d.,]/g, '')
Cleaned(priceString) == SelectSeq(priceString, LAMBDA ch : ch \in Digits \cup {".", ","})

\* s.replace(/ch/g, '')
RemoveAll(s, ch) == SelectSeq(s, LAMBDA x : x # ch)
\* s.replace(ch, by): the first occurrence only
ReplaceFirst(s, ch, by) ==
    LET i == IndexOf(s, ch, 1) IN IF i = 0 THEN s ELSE [s EXCEPT ![i] = by]
\* s.lastIndexOf(ch), counted from 1 (0 when there is none)
LastIndexOf(s, ch) ==
    IF \E i \in 1..Len(s) : s[i] = ch
    THEN CHOOSE i \in 1..Len(s) : s[i] = ch /\ \A j \in (i + 1)..Len(s) : s[j] # ch
    ELSE 0

\* lines 76-91: the decimal separator becomes a dot
WithDecimalDotFirstOnly(cleanedPrice) ==
    LET hasComma == Includes(cleanedPrice, <<",">>)
        hasDot == Includes(cleanedPrice, <<".">>)
        RemoveFirst(s, ch) ==
            LET i == IndexOf(s, ch, 1) IN SubSeq(s, 1, i - 1) \o SubSeq(s, i + 1, Len(s))
    IN  IF hasComma /\ hasDot
        THEN IF LastIndexOf(cleanedPrice, ",") > LastIndexOf(cleanedPrice, ".")
             THEN ReplaceFirst(RemoveFirst(cleanedPrice, "."), ",", ".")
             ELSE RemoveFirst(cleanedPrice, ",")
        ELSE IF hasComma THEN ReplaceFirst(cleanedPrice, ",", ".")
        ELSE cleanedPrice
WithDecimalDot(cleanedPrice) ==
    LET hasComma == Includes(cleanedPrice, <<",">>)
        hasDot == Includes(cleanedPrice, <<".">>)
    IN  IF hasComma /\ hasDot
        THEN IF LastIndexOf(cleanedPrice, ",") > LastIndexOf(cleanedPrice, ".")
             THEN ReplaceFirst(RemoveAll(cleanedPrice, "."), ",", ".")
             ELSE RemoveAll(cleanedPrice, ",")
        ELSE IF hasComma THEN ReplaceFirst(cleanedPrice, ",", ".")
        ELSE cleanedPrice

\* the digits of d without the zeros at its end
RECURSIVE WithoutTrailingZeros(_)
WithoutTrailingZeros(d) ==
    IF d # <<>> /\ d[Len(d)] = "0" THEN WithoutTrailingZeros(SubSeq(d, 1, Len(d) - 1)) ELSE d

\* parseFloat(s) for a text of digits, dots and commas: the longest prefix that
\* writes a decimal number, NaN when that prefix holds no digit
ParseFloat(s) ==
    LET whole == DigitPrefix(s)
        rest == From(s, Len(whole) + 1)
        frac == IF rest # <<>> /\ Head(rest) = "." THEN DigitPrefix(Tail(rest)) ELSE <<>>
    IN  IF whole = <<>> /\ frac = <<>> THEN NaN
        ELSE Number(NatOf(whole), WithoutTrailingZeros(frac))

\* parsePriceString (lines 71-94)
ParsePriceString(priceString) == ParseFloat(WithDecimalDot(Cleaned(priceString)))

\* lines 44-51: the lowest price when that field is truthy, else the median
\* price when that field is truthy, else null
PreferredPriceMedianFirst(body) ==
    IF IsTruthy(body.median_price) THEN ParsePriceString(body.median_price.chars)
    ELSE IF IsTruthy(body.lowest_price) THEN ParsePriceString(body.lowest_price.chars)
    ELSE NullPrice
PreferredPrice(body) ==
    IF IsTruthy(body.lowest_price) THEN ParsePriceString(body.lowest_price.chars)
    ELSE IF IsTruthy(body.median_price) THEN ParsePriceString(body.median_price.chars)
    ELSE NullPrice

\* price !== null
IsNotNull(price) == price.kind # "null"

\* the error getItemPrice catches for a makeRequest result r and, when the
\* response is ok, its body
PriceFailure(r, body, url) ==
    IF r.kind = "throw" THEN r.error
    ELSE IF ~ResponseOk(r.status) THEN HttpErrorMessage(r.status)
    ELSE IF ~body.parsable THEN JsonErrorMessage(url)
    ELSE ErrorOf("Failed to get price data")

\* line 66: what getItemPrice gives its caller when it has caught an error
PriceFailureRethrown(error) == PriceThrown(error)
PriceFailureResult(error) == PriceResult(NullPrice)

\* lines 61-65: the record getItemPrice logs when it fails
PriceFailureLog(appId, marketHashName, error) ==
    [level |-> "error", message |-> "Failed to get market price",
     appId |-> appId, marketHashName |-> marketHashName, error |-> error]

-----------------------------------------------------------------------------
(* getInventory, getItemPrice and the refresh route: the steps *)

MaxAccountId == 3

\* what a step of the refresh route leaves alone of SteamParser's other state
lookupFields == <<steamApiKey, profileCache, op>>

\* No handler is running
RouteIdle == route.pc \in {"idle", "done"}

\* Lines 170-189 of steam-parser.ts: getInventory(accountId, steamId) is entered
\* at time t and runs to its first await: a fresh cache entry is copied and
\* returned, an id that cannot be converted throws, otherwise makeRequest is
\* entered
StartInventory(c, accountId, steamId, t) ==
    LET cacheKey == InventoryCacheKey(steamId, CSGO_APP_ID)
        fresh == [IdleInv EXCEPT !.accountId = accountId, !.steamId = steamId,
                                 !.cacheKey = cacheKey, !.startedAt = t,
                                 !.cacheAtStart = inventoryCache,
                                 !.arraysAtStart = arrays]
        hit == MapHas(inventoryCache, cacheKey)
                   /\ InventoryCacheFresh(t, inventoryCache[cacheKey].timestamp)
        copies == Rebound(arrays[inventoryCache[cacheKey].data], accountId)
        steamID64 == ConvertSteamIDToSteamID64(steamId)
    IN  IF hit
        THEN /\ arrays' = Append(arrays, copies)
             /\ inv' = [fresh EXCEPT !.pc = "done", !.result = ArrayResult(Len(arrays) + 1),
                                     !.returned = copies]
             /\ UNCHANGED <<calls, started>>
             /\ UNCHANGED quotaFields
        ELSE IF ~steamID64.ok
        THEN /\ inv' = [fresh EXCEPT !.pc = "inventoryLog", !.error = ErrorOf(steamID64.error)]
             /\ UNCHANGED <<arrays, calls, started>>
             /\ UNCHANGED quotaFields
        ELSE /\ inv' = [fresh EXCEPT !.pc = "inventoryRequest", !.steamID64 = steamID64.value,
                                     !.requests = 1]
             /\ started' = started + 1
             /\ EnforceRateLimitEntry(c, [IdleCall EXCEPT !.rm = "parser",
                                                          !.url = InventoryUrl("ID64")], t)
             /\ UNCHANGED arrays

\* Lines 147-167 of routes.ts: POST /api/accounts/:id/refresh for an account
\* that exists: the account is read, the start is logged and getInventory is
\* called
RefreshStart(c, id) ==
    LET t == now + 2 * StorageLatency
        entered == [IdleRoute EXCEPT !.kind = "refresh", !.id = id,
                                     !.steamId = accounts[id].steamId]
    IN  /\ RouteIdle
        /\ MapHas(accounts, id)
        /\ opsStarted < MaxOps
        /\ opsStarted' = opsStarted + 1
        /\ now' = t
        /\ quote' = IdleQuote
        /\ IF CreateLogRejects
           THEN /\ route' = [entered EXCEPT !.pc = "done", !.failed = TRUE]
                /\ inv' = IdleInv
                /\ UNCHANGED <<arrays, calls, started>>
                /\ UNCHANGED quotaFields
           ELSE /\ route' = [entered EXCEPT !.pc = "inventory"]
                /\ StartInventory(c, id, accounts[id].steamId, t)
        /\ UNCHANGED <<accounts, accountsCurrentId, upstreamInventory, inventoryCache,
                       priceCache, clockJumps>>
        /\ UNCHANGED lookupFields
        /\ UNCHANGED storeVars
        /\ UNCHANGED managerFields

\* Lines 189-241 of steam-parser.ts: makeRequest has returned or thrown (its
\* locals are gone); check the status, read the body as JSON, join the assets
\* with the descriptions, cache the cases and return them.  fetched, response
\* and body of a cache entry are history: the items as they were written, and
\* the response and body they were built from.
InventoryResponse(c, body) ==
    LET r == calls[c].result
        back == [inv EXCEPT !.response = r, !.fetches = calls[c].fetches]
        got == [back EXCEPT !.body = body]
        ok == r.kind = "response" /\ ResponseOk(r.status)
        cases == Cases(inv.accountId, inv.appId, body.assets,
                       DescriptionsMap(body.descriptions, EmptyMap))
        ref == Len(arrays) + 1
    IN  /\ inv.pc = "inventoryRequest"
        /\ calls[c].pc = "done"
        /\ IF ok /\ body.parsable /\ InventoryComplete(body)
           THEN /\ arrays' = Append(arrays, cases)
                /\ inventoryCache' =
                      MapSet(inventoryCache, inv.cacheKey,
                             [data |-> ref, timestamp |-> now, fetched |-> cases,
                              response |-> r, body |-> body])
                /\ inv' = [got EXCEPT !.pc = "done", !.result = ArrayResult(ref),
                                      !.returned = cases]
           ELSE /\ inv' = [(IF ok THEN got ELSE back) EXCEPT
                              !.pc = "inventoryLog",
                              !.error = InventoryFailure(r, body, calls[c].url)]
                /\ UNCHANGED <<arrays, inventoryCache>>
        /\ calls' = [calls EXCEPT ![c] = IdleCall]
        /\ UNCHANGED <<now, started, opsStarted, clockJumps, accounts, accountsCurrentId,
                       upstreamInventory, priceCache, quote, route>>
        /\ UNCHANGED lookupFields
        /\ UNCHANGED storeVars
        /\ UNCHANGED managerFields
        /\ UNCHANGED quotaFields

\* Lines 242-256: the failure is logged, the account is marked private when the
\* message says so, and a new empty array is returned.  When the createLog of
\* the catch rejects, getInventory rejects with its error.
InventoryLogged ==
    LET private == MarksPrivate(inv.error)
    IN  /\ inv.pc = "inventoryLog"
        /\ IF CreateLogRejects
           THEN /\ now' = now + StorageLatency
                /\ inv' = [inv EXCEPT !.pc = "done", !.result = ArrayThrown]
                /\ UNCHANGED <<accounts, arrays>>
           ELSE /\ now' = now + (IF private THEN 2 ELSE 1) * StorageLatency
                /\ accounts' = IF private
                               THEN UpdateAccountPrivacy(accounts, inv.accountId, TRUE)
                               ELSE accounts
                /\ arrays' = Append(arrays, <<>>)
                /\ inv' = [inv EXCEPT
                              !.pc = "done",
                              !.log = Append(@, InventoryFailureLog(inv.accountId, inv.steamId,
                                                                    inv.appId, inv.error)),
                              !.result = InventoryFailureResult(Len(arrays) + 1)]
        /\ UNCHANGED <<calls, started, opsStarted, clockJumps, accountsCurrentId,
                       upstreamInventory, inventoryCache, priceCache, quote, route>>
        /\ UNCHANGED lookupFields
        /\ UNCHANGED storeVars
        /\ UNCHANGED managerFields
        /\ UNCHANGED quotaFields

\* getCurrencyId(settings?.currency || 'USD') for the currency of the default
\* settings
UsdCurrencyId == 1

\* Lines 293-301 of routes.ts: the catch of the refresh-all handler around one
\* account pushes an 'error' entry, and the loop goes on with the next account
AccountFailed(r) ==
    [r EXCEPT !.pc = "account", !.k = @ + 1,
              !.results = Append(@, ResultEntry(r.queue[r.k], "error", 0))]

\* Lines 167-172 and 265-270 of routes.ts: getInventory has returned its array;
\* the settings are read for the currency.  When getInventory has thrown, the
\* refresh handler logs the failure and answers 500 (lines 217-231), and the
\* refresh-all handler records an error for the account.
RouteInventoryReturned ==
    /\ route.pc = "inventory"
    /\ inv.pc = "done"
    /\ now' = now + StorageLatency
    /\ route' = IF inv.result.kind = "array"
                THEN [route EXCEPT !.pc = "loop", !.cases = inv.result.ref, !.i = 1,
                                   !.currencyId = UsdCurrencyId]
                ELSE IF route.kind = "refreshAll"
                THEN AccountFailed(route)
                ELSE [route EXCEPT !.pc = "done", !.failed = TRUE]
    /\ UNCHANGED <<calls, started, opsStarted, clockJumps, accounts, accountsCurrentId,
                   upstreamInventory, inventoryCache, priceCache, arrays, inv, quote>>
    /\ UNCHANGED lookupFields
    /\ UNCHANGED storeVars
    /\ UNCHANGED managerFields
    /\ UNCHANGED quotaFields

\* Lines 19-32 of market-price.ts: getItemPrice(appId, marketHashName, currency)
\* is entered and runs to its first await: a fresh cache entry is returned,
\* otherwise makeRequest is entered
StartItemPrice(c, appId, marketHashName, currency) ==
    LET cacheKey == PriceCacheKey(appId, marketHashName, currency)
        fresh == [IdleQuote EXCEPT !.appId = appId, !.marketHashName = marketHashName,
                                   !.currency = currency, !.cacheKey = cacheKey,
                                   !.startedAt = now, !.cacheAtStart = priceCache]
        hit == MapHas(priceCache, cacheKey)
                   /\ PriceCacheFresh(now, priceCache[cacheKey].timestamp)
    IN  /\ IF hit
           THEN /\ quote' = [fresh EXCEPT !.pc = "done",
                                          !.result = PriceResult(priceCache[cacheKey].price)]
                /\ UNCHANGED <<calls, started>>
                /\ UNCHANGED quotaFields
           ELSE /\ quote' = [fresh EXCEPT !.pc = "priceRequest", !.requests = 1]
                /\ started' = started + 1
                /\ EnforceRateLimitEntry(c,
                      [IdleCall EXCEPT !.rm = "market",
                                       !.url = PriceUrl("appid=APPID&currency=ID&market_hash_name=NAME")],
                      now)
        /\ UNCHANGED <<now, clockJumps, accounts, accountsCurrentId, upstreamInventory,
                       inventoryCache, priceCache, arrays, inv>>
        /\ UNCHANGED lookupFields
        /\ UNCHANGED storeVars
        /\ UNCHANGED managerFields

\* Lines 178-182 of routes.ts: the loop takes the next item of the array and
\* asks for its price
RouteNextItem(c) ==
    /\ route.pc = "loop"
    /\ route.i <= Len(arrays[route.cases])
    /\ route' = [route EXCEPT !.pc = "pricing"]
    /\ StartItemPrice(c, arrays[route.cases][route.i].appId,
                      arrays[route.cases][route.i].marketHashName, route.currencyId)
    /\ UNCHANGED opsStarted

\* getItemPrice is called by hand
GetItemPrice(c, appId, marketHashName, currency) ==
    /\ RouteIdle
    /\ quote.pc \in {"idle", "done"}
    /\ opsStarted < MaxOps
    /\ opsStarted' = opsStarted + 1
    /\ StartItemPrice(c, appId, marketHashName, currency)
    /\ UNCHANGED route

\* Lines 32-58 of market-price.ts: makeRequest has returned or thrown; check the
\* status, read the body as JSON, take the price, cache it unless it is null
\* and return it.  appId, marketHashName and currency of a cache entry are
\* history: the arguments of the call that wrote it.
PriceResponse(c, body) ==
    LET r == calls[c].result
        back == [quote EXCEPT !.response = r, !.fetches = calls[c].fetches]
        got == [back EXCEPT !.body = body]
        ok == r.kind = "response" /\ ResponseOk(r.status)
        price == PreferredPrice(body)
    IN  /\ quote.pc = "priceRequest"
        /\ calls[c].pc = "done"
        /\ IF ok /\ body.parsable /\ body.success
           THEN /\ priceCache' = IF IsNotNull(price)
                                 THEN MapSet(priceCache, quote.cacheKey,
                                             [price |-> price, timestamp |-> now,
                                              appId |-> quote.appId,
                                              marketHashName |-> quote.marketHashName,
                                              currency |-> quote.currency])
                                 ELSE priceCache
                /\ quote' = [got EXCEPT !.pc = "done", !.result = PriceResult(price)]
           ELSE /\ quote' = [(IF ok THEN got ELSE back) EXCEPT
                                !.pc = "priceLog",
                                !.error = PriceFailure(r, body, calls[c].url)]
                /\ UNCHANGED priceCache
        /\ calls' = [calls EXCEPT ![c] = IdleCall]
        /\ UNCHANGED <<now, started, opsStarted, clockJumps, accounts, accountsCurrentId,
                       upstreamInventory, inventoryCache, arrays, inv, route>>
        /\ UNCHANGED lookupFields
        /\ UNCHANGED storeVars
        /\ UNCHANGED managerFields
        /\ UNCHANGED quotaFields

\* Lines 59-67: the failure is logged; return null.  When the createLog of the
\* catch rejects, getItemPrice rejects with its error.
PriceLogged ==
    /\ quote.pc = "priceLog"
    /\ now' = now + StorageLatency
    /\ quote' = IF CreateLogRejects
                THEN [quote EXCEPT !.pc = "done", !.result = PriceThrown(StorageErrorMessage)]
                ELSE [quote EXCEPT !.pc = "done",
                                   !.log = Append(@, PriceFailureLog(quote.appId,
                                                                     quote.marketHashName,
                                                                     quote.error)),
                                   !.result = PriceFailureResult(quote.error)]
    /\ UNCHANGED <<calls, started, opsStarted, clockJumps, accounts, accountsCurrentId,
                   upstreamInventory, inventoryCache, priceCache, arrays, inv, route>>
    /\ UNCHANGED lookupFields
    /\ UNCHANGED storeVars
    /\ UNCHANGED managerFields
    /\ UNCHANGED quotaFields

\* Lines 182-191 and 275-279 of routes.ts: getItemPrice has returned; the price
\* is written into the item (an object of the array getInventory returned) and
\* the item is saved with upsertCase.  When getItemPrice has thrown or
\* upsertCase rejects, the refresh handler counts an error and goes on with the
\* next item, and the refresh-all handler, which has no try around one item,
\* records an error for the account and goes on with the next account.
RoutePriced ==
    LET priceReturned == quote.result.kind = "value"
        caseItem == [arrays[route.cases][route.i] EXCEPT !.price = quote.result.price]
        upserted == UpsertCase(storedCases, casesCurrentId, caseItem)
        stored == priceReturned /\ ~UpsertCaseRejects
    IN  /\ route.pc = "pricing"
        /\ quote.pc = "done"
        /\ IF priceReturned
           THEN /\ arrays' = [arrays EXCEPT ![route.cases][route.i] = caseItem]
                /\ now' = now + StorageLatency
           ELSE UNCHANGED <<arrays, now>>
        /\ IF stored
           THEN /\ storedCases' = upserted.cases
                /\ casesCurrentId' = upserted.currentId
           ELSE UNCHANGED <<storedCases, casesCurrentId>>
        /\ route' = IF stored
                    THEN [route EXCEPT
                             !.pc = "loop", !.i = @ + 1,
                             !.successCount = IF route.kind = "refresh" THEN @ + 1 ELSE @,
                             !.saved = [called |-> TRUE, before |-> storedCases,
                                        item |-> caseItem]]
                    ELSE IF route.kind = "refreshAll"
                    THEN AccountFailed(route)
                    ELSE [route EXCEPT !.pc = "loop", !.i = @ + 1, !.errorCount = @ + 1]
        /\ UNCHANGED <<calls, started, opsStarted, clockJumps, accounts, accountsCurrentId,
                       upstreamInventory, inventoryCache, priceCache, inv, quote>>
        /\ UNCHANGED lookupFields
        /\ UNCHANGED <<currencyCalls, failing>>
        /\ UNCHANGED managerFields
        /\ UNCHANGED quotaFields

\* Lines 194-216 of routes.ts: every item is priced; the account's lastUpdated
\* is written, the completion is logged and the handler answers (from its outer
\* catch when the createLog rejects)
RouteFinish ==
    /\ route.kind = "refresh"
    /\ route.pc = "loop"
    /\ route.i > Len(arrays[route.cases])
    /\ now' = now + 2 * StorageLatency
    /\ route' = [route EXCEPT !.pc = "done", !.failed = CreateLogRejects]
    /\ UNCHANGED <<calls, started, opsStarted, clockJumps, accounts, accountsCurrentId,
                   upstreamInventory, inventoryCache, priceCache, arrays, inv, quote>>
    /\ UNCHANGED lookupFields
    /\ UNCHANGED storeVars
    /\ UNCHANGED managerFields
    /\ UNCHANGED quotaFields

\* Lines 77-106 of routes.ts: DELETE /api/accounts/:id for an account that
\* exists; MemStorage.deleteAccount deletes the cases of the account with it.
\* The locals of the handlers that have finished are gone.
DeleteAccount(c, id) ==
    /\ RouteIdle
    /\ quote.pc \in {"idle", "done"}
    /\ MapHas(accounts, id)
    /\ now' = now + 3 * StorageLatency
    /\ accounts' = MapDelete(accounts, id)
    /\ storedCases' = DeleteCasesByAccountId(storedCases, id)
    /\ route' = IdleRoute
    /\ inv' = IdleInv
    /\ quote' = IdleQuote
    /\ calls' = [calls EXCEPT ![c] = IdleCall]
    /\ UNCHANGED <<started, opsStarted, clockJumps, accountsCurrentId, upstreamInventory,
                   inventoryCache, priceCache, arrays>>
    /\ UNCHANGED lookupFields
    /\ UNCHANGED <<casesCurrentId, currencyCalls, failing>>
    /\ UNCHANGED managerFields
    /\ UNCHANGED quotaFields

\* Lines 48-75 of routes.ts: POST /api/accounts with a steamId no account has;
\* MemStorage.createAccount gives the account the next id
CreateAccount(c, steamId) ==
    /\ RouteIdle
    /\ quote.pc \in {"idle", "done"}
    /\ \A id \in DOMAIN accounts : accounts[id].steamId # steamId
    /\ accountsCurrentId <= MaxAccountId
    /\ now' = now + 3 * StorageLatency
    /\ accounts' = MapSet(accounts, accountsCurrentId,
                          [steamId |-> steamId, isPrivate |-> FALSE])
    /\ accountsCurrentId' = accountsCurrentId + 1
    /\ route' = IdleRoute
    /\ inv' = IdleInv
    /\ quote' = IdleQuote
    /\ calls' = [calls EXCEPT ![c] = IdleCall]
    /\ UNCHANGED <<started, opsStarted, clockJumps, upstreamInventory, inventoryCache,
                   priceCache, arrays>>
    /\ UNCHANGED lookupFields
    /\ UNCHANGED storeVars
    /\ UNCHANGED managerFields
    /\ UNCHANGED quotaFields

\* Time passes while the caches hold something and no handler runs; the locals
\* of the handlers that have finished are gone
Pause(c, gap) ==
    /\ RouteIdle
    /\ quote.pc \in {"idle", "done"}
    /\ inventoryCache # EmptyMap \/ priceCache # EmptyMap
    /\ clockJumps < MaxJumps
    /\ clockJumps' = clockJumps + 1
    /\ now' = now + gap
    /\ route' = IdleRoute
    /\ inv' = IdleInv
    /\ quote' = IdleQuote
    /\ calls' = [calls EXCEPT ![c] = IdleCall]
    /\ UNCHANGED <<started, opsStarted, accounts, accountsCurrentId, upstreamInventory,
                   inventoryCache, priceCache, arrays>>
    /\ UNCHANGED lookupFields
    /\ UNCHANGED storeVars
    /\ UNCHANGED managerFields
    /\ UNCHANGED quotaFields

-----------------------------------------------------------------------------
(* The refresh route, its callers and the upstream *)

\* the accounts added through POST /api/accounts before the refreshes: one with
\* a SteamID, one with a text that is not one
SeededAccounts ==
    [id \in {1, 2} |->
        [steamId |-> IF id = 1 THEN LegacyId(0, 1, 11101) ELSE <<"g", "a", "b", "e", "n">>,
         isPrivate |-> FALSE]]
\* the account the clients delete, and the SteamID they add again
DeletedIds == {1}
AddedSteamIds == {SeededAccounts[id].steamId : id \in DeletedIds}

Asset(assetid, classid, amount) ==
    [assetid |-> assetid, classid |-> classid, instanceid |-> <<"0">>, amount |-> amount]
Description(classid, name, market_hash_name) ==
    [classid |-> classid, instanceid |-> <<"0">>, name |-> name,
     market_hash_name |-> market_hash_name, icon_url |-> "icon"]
Named(classid, name) == Description(classid, Text(name), Text(name))

Chroma3Case == <<"C", "h", "r", "o", "m", "a", " ", "3", " ", "C", "a", "s", "e">>
BreakoutCase == <<"O", "p", "e", "r", "a", "t", "i", "o", "n", " ", "B", "r", "e", "a", "k", "o", "u", "t", " ", "W", "e", "a", "p", "o", "n", " ", "C", "a", "s", "e">>

\* a case, a key and a sticker
ThreeAssets ==
    [NoInventoryBody EXCEPT
        !.parsable = TRUE, !.success = TRUE, !.hasAssets = TRUE, !.hasDescriptions = TRUE,
        !.assets = <<Asset(<<"1", "0", "1">>, <<"1">>, Text(<<"1">>)), Asset(<<"1", "0", "2">>, <<"2">>, Text(<<"1">>)),
                     Asset(<<"1", "0", "3">>, <<"3">>, Text(<<"1">>))>>,
        !.descriptions = <<Named(<<"1">>, Chroma3Case), Named(<<"2">>, <<"C", "a", "s", "e", " ", "K", "e", "y">>),
                           Named(<<"3">>, <<"S", "t", "i", "c", "k", "e", "r", " ", "|", " ", "C", "r", "o", "w", "b", "a", "r">>)>>]

\* cases whose amount is missing, not a number, zero, negative and positive
Amounts ==
    [NoInventoryBody EXCEPT
        !.parsable = TRUE, !.success = TRUE, !.hasAssets = TRUE, !.hasDescriptions = TRUE,
        !.assets = <<Asset(<<"2", "0", "1">>, <<"1">>, Absent), Asset(<<"2", "0", "2">>, <<"1">>, Text(<<"a", "b", "c">>)),
                     Asset(<<"2", "0", "3">>, <<"1">>, Text(<<"0">>)), Asset(<<"2", "0", "4">>, <<"1">>, Text(<<"-", "3">>)),
                     Asset(<<"2", "0", "5">>, <<"1">>, Text(<<"5">>))>>,
        !.descriptions = <<Named(<<"1">>, Chroma3Case)>>]

\* a case described by its market hash name only, an asset whose description
\* comes twice, a name in lower case, a graffiti and an asset without description
Mixed ==
    [NoInventoryBody EXCEPT
        !.parsable = TRUE, !.success = TRUE, !.hasAssets = TRUE, !.hasDescriptions = TRUE,
        !.assets = <<Asset(<<"3", "0", "1">>, <<"1">>, Text(<<"1">>)), Asset(<<"3", "0", "2">>, <<"2">>, Text(<<"2">>)),
                     Asset(<<"3", "0", "3">>, <<"3">>, Text(<<"1">>)), Asset(<<"3", "0", "4">>, <<"4">>, Text(<<"1">>)),
                     Asset(<<"3", "0", "5">>, <<"5">>, Text(<<"1">>))>>,
        !.descriptions = <<Description(<<"1">>, Absent, Text(Chroma3Case)),
                           Named(<<"2">>, <<"C", "a", "s", "e", " ", "K", "e", "y">>),
                           Named(<<"2">>, BreakoutCase),
                           Named(<<"3">>, <<"c", "h", "r", "o", "m", "a", " ", "3", " ", "c", "a", "s", "e">>),
                           Named(<<"4">>, <<"S", "e", "a", "l", "e", "d", " ", "G", "r", "a", "f", "f", "i", "t", "i", " ", "|", " ", "C", "o", "n", "t", "a", "i", "n", "e", "r">>)>>]

\* an inventory without items
NoAssets ==
    [NoInventoryBody EXCEPT
        !.parsable = TRUE, !.success = TRUE, !.hasAssets = TRUE, !.hasDescriptions = TRUE]

\* what the inventory endpoint holds for a SteamID: a body that is not JSON, a
\* body without success flag, a body without descriptions, or an inventory
InventoryBodies ==
    {NoInventoryBody,
     [NoInventoryBody EXCEPT !.parsable = TRUE],
     [ThreeAssets EXCEPT !.hasDescriptions = FALSE, !.descriptions = <<>>],
     NoAssets, ThreeAssets, Amounts, Mixed}

\* the statuses the inventory endpoint answers with
InventoryStatuses == Statuses \cup {403}

Priced(lowest, median) ==
    [NoPriceBody EXCEPT !.parsable = TRUE, !.success = TRUE,
                        !.lowest_price = lowest, !.median_price = median]

\* what the price endpoint answers for the items of a refresh
RoutePriceBody == Priced(Text(<<"$", "1", ".", "2", "3">>), Text(<<"$", "1", ".", "5", "0">>))
RoutePriceStatuses == {200, 500}

\* the pauses between two handlers: just short of the cache duration, and just it
InventoryPauses == {INVENTORY_CACHE_DURATION - 1, INVENTORY_CACHE_DURATION}

\* The steps of a makeRequest call of a refresh.  The handlers of the model make
\* fewer inventory requests than the quota allows, so the call never waits for
\* the quota.  The random part of the spacing is the smallest one.  The
\* inventory endpoint throttles every fetch of a call or none of them, and a
\* fetch that fails was aborted; the price endpoint answers a request of the
\* route with 200 or 500.
RefreshRequestStep(c) ==
    \/ SettingsReturn(c, RandomDelayMin)
    \/ SpacingWake(c)
    \/ \E userAgent \in userAgents[calls[c].rm] : RequestLogged(c, userAgent)
    \/ \E status \in InventoryStatuses :
          /\ status = 429 \/ calls[c].throttled = 0
          /\ calls[c].rm = "market" => status \in RoutePriceStatuses
          /\ FetchResponds(c, status)
    \/ \E errorMessage \in FetchErrorMessages(calls[c].url) :
          /\ calls[c].throttled = 0
          /\ calls[c].rm = "parser"
          /\ errorMessage.query = ""
          /\ FetchFails(c, errorMessage)
    \/ ErrorResponseLogged(c)
    \/ FailureLogged(c)
    \/ BackoffWake(c)

ManagersConstructed ==
    /\ now = StartTime
    /\ requestDelay = 0
    /\ lastRequestTime = [m \in Managers |-> 0]
    /\ inventoryRequestsThisPeriod = [m \in Managers |-> 0]
    /\ periodStartTime = [m \in Managers |-> StartTime]
    /\ retryAttempts = [m \in Managers |-> EmptyMap]
    /\ userAgents = [m \in Managers |-> ConfiguredUserAgents]
    /\ calls = [c \in Calls |-> IdleCall]
    /\ started = 0
    /\ lastDispatch = [m \in Managers |-> NoDispatch]
    /\ processDispatch = NoDispatch
    /\ inventoryDispatches = [m \in Managers |-> <<>>]

InitInventory ==
    /\ ManagersConstructed
    /\ steamApiKey = "KEY"
    /\ ParserConstructed
    /\ ServicesConstructed
    /\ StorageWorks
    /\ accounts = SeededAccounts
    /\ accountsCurrentId = 3
    /\ storedCases = EmptyMap
    /\ casesCurrentId = 1
    /\ upstreamInventory \in InventoryBodies

\* Accounts are refreshed, deleted and added again, one handler at a time
NextInventory ==
    \/ \E c \in SerialCalls, id \in DOMAIN accounts : RefreshStart(c, id)
    \/ \E c \in SerialCalls : InventoryResponse(c, upstreamInventory)
    \/ InventoryLogged
    \/ RouteInventoryReturned
    \/ \E c \in SerialCalls : RouteNextItem(c)
    \/ \E c \in SerialCalls : PriceResponse(c, RoutePriceBody)
    \/ PriceLogged
    \/ RoutePriced
    \/ RouteFinish
    \/ \E c \in SerialCalls, id \in DeletedIds : DeleteAccount(c, id)
    \/ \E c \in SerialCalls, steamId \in AddedSteamIds : CreateAccount(c, steamId)
    \/ \E c \in SerialCalls, gap \in InventoryPauses : Pause(c, gap)
    \/ \E c \in SerialCalls : RefreshRequestStep(c)

SpecInventory == InitInventory /\ [][NextInventory]_vars

-----------------------------------------------------------------------------
(* The refresh-all route and the cases of the storage *)

\* Lines 235-247 of routes.ts: POST /api/accounts/refresh-all reads the
\* accounts and logs the start; when the createLog rejects, the outer catch
\* (lines 317-331) ends the handler without results
RefreshAllStart(c) ==
    LET entered == [IdleRoute EXCEPT !.kind = "refreshAll", !.queue = AccountList(accounts)]
    IN  /\ RouteIdle
        /\ opsStarted < MaxOps
        /\ opsStarted' = opsStarted + 1
        /\ now' = now + 2 * StorageLatency
        /\ route' = IF CreateLogRejects
                    THEN [entered EXCEPT !.pc = "done", !.failed = TRUE]
                    ELSE [entered EXCEPT !.pc = "account", !.k = 1]
        /\ inv' = IdleInv
        /\ quote' = IdleQuote
        /\ UNCHANGED <<calls, started, clockJumps, accounts, accountsCurrentId,
                       upstreamInventory, inventoryCache, priceCache, arrays>>
        /\ UNCHANGED lookupFields
        /\ UNCHANGED storeVars
        /\ UNCHANGED managerFields
        /\ UNCHANGED quotaFields

\* Lines 250-265: the loop takes the next account of the list it read at the
\* start; an account that was private then is skipped, for another one
\* getInventory is entered
RefreshAllNextAccount(c) ==
    LET account == route.queue[route.k]
    IN  /\ route.kind = "refreshAll"
        /\ route.pc = "account"
        /\ route.k <= Len(route.queue)
        /\ IF account.isPrivate
           THEN /\ route' = [route EXCEPT
                                !.k = @ + 1,
                                !.results = Append(@, ResultEntry(account, "skipped", 0))]
                /\ UNCHANGED <<arrays, inv, calls, started>>
                /\ UNCHANGED quotaFields
           ELSE /\ route' = [route EXCEPT !.pc = "inventory", !.id = account.id,
                                          !.steamId = account.steamId]
                /\ StartInventory(c, account.id, account.steamId, now)
        /\ UNCHANGED <<now, opsStarted, clockJumps, accounts, accountsCurrentId,
                       upstreamInventory, inventoryCache, priceCache, quote>>
        /\ UNCHANGED lookupFields
        /\ UNCHANGED storeVars
        /\ UNCHANGED managerFields

\* Lines 282-291: every item of the account is priced and saved; the account's
\* lastUpdated is written and a 'success' entry is pushed
RefreshAllAccountDone ==
    /\ route.kind = "refreshAll"
    /\ route.pc = "loop"
    /\ route.i > Len(arrays[route.cases])
    /\ now' = now + StorageLatency
    /\ route' = [route EXCEPT
                    !.pc = "account", !.k = @ + 1,
                    !.results = Append(@, ResultEntry(route.queue[route.k], "success",
                                                      Len(arrays[route.cases])))]
    /\ UNCHANGED <<calls, started, opsStarted, clockJumps, accounts, accountsCurrentId,
                   upstreamInventory, inventoryCache, priceCache, arrays, inv, quote>>
    /\ UNCHANGED lookupFields
    /\ UNCHANGED storeVars
    /\ UNCHANGED managerFields
    /\ UNCHANGED quotaFields

\* Lines 305-316: the loop is over; the completion is logged and the handler
\* answers with the results (from its outer catch, without them, when the
\* createLog rejects)
RefreshAllFinish ==
    /\ route.kind = "refreshAll"
    /\ route.pc = "account"
    /\ route.k > Len(route.queue)
    /\ now' = now + StorageLatency
    /\ route' = [route EXCEPT !.pc = "done", !.failed = CreateLogRejects]
    /\ UNCHANGED <<calls, started, opsStarted, clockJumps, accounts, accountsCurrentId,
                   upstreamInventory, inventoryCache, priceCache, arrays, inv, quote>>
    /\ UNCHANGED lookupFields
    /\ UNCHANGED storeVars
    /\ UNCHANGED managerFields
    /\ UNCHANGED quotaFields

\* The owner trades: between two handlers the inventory endpoint comes to hold
\* another inventory
InventoryChanges(body) ==
    /\ RouteIdle
    /\ quote.pc \in {"idle", "done"}
    /\ storedCases # EmptyMap
    /\ body # upstreamInventory
    /\ upstreamInventory' = body
    /\ UNCHANGED <<now, calls, started, opsStarted, clockJumps, accounts, accountsCurrentId,
                   inventoryCache, priceCache, arrays, inv, quote, route>>
    /\ UNCHANGED lookupFields
    /\ UNCHANGED storeVars
    /\ UNCHANGED managerFields
    /\ UNCHANGED quotaFields

\* the accounts of the storage before the handlers: one with a SteamID, one
\* with a text that is not one, and one that is marked private
StoredAccounts ==
    [id \in {1, 2, 3} |->
        IF id = 3
        THEN [steamId |-> LegacyId(0, 0, 22202), isPrivate |-> TRUE]
        ELSE SeededAccounts[id]]

\* the inventories the endpoint holds one after the other
StoredBodies == {ThreeAssets, Amounts}

\* the pause between two handlers after which a cached inventory is stale
StalePauses == {INVENTORY_CACHE_DURATION}

\* the account the clients refresh by itself
RefreshedIds == {1}

\* the storage operations that reject during a run: none, the writes of the
\* cases, or the writes of the log
Failures == {{}, {"upsertCase"}, {"createLog"}}

InitStore ==
    /\ ManagersConstructed
    /\ steamApiKey = "KEY"
    /\ ParserConstructed
    /\ ServicesConstructed
    /\ failing \in Failures
    /\ accounts = StoredAccounts
    /\ accountsCurrentId = 4
    /\ storedCases = EmptyMap
    /\ casesCurrentId = 1
    /\ upstreamInventory \in StoredBodies

\* Accounts are refreshed one by one or all at once, one handler at a time,
\* and the inventories change in between
NextStore ==
    \/ \E c \in SerialCalls, id \in RefreshedIds : RefreshStart(c, id)
    \/ \E c \in SerialCalls : RefreshAllStart(c)
    \/ \E c \in SerialCalls : RefreshAllNextAccount(c)
    \/ \E c \in SerialCalls : InventoryResponse(c, upstreamInventory)
    \/ InventoryLogged
    \/ RouteInventoryReturned
    \/ \E c \in SerialCalls : RouteNextItem(c)
    \/ \E c \in SerialCalls : PriceResponse(c, RoutePriceBody)
    \/ PriceLogged
    \/ RoutePriced
    \/ RouteFinish
    \/ RefreshAllAccountDone
    \/ RefreshAllFinish
    \/ \E body \in StoredBodies : InventoryChanges(body)
    \/ \E c \in SerialCalls, gap \in StalePauses : Pause(c, gap)
    \/ \E c \in SerialCalls : RefreshRequestStep(c)

SpecStore == InitStore /\ [][NextStore]_vars

\* the keys getItemPrice is called with: one item, and the keys that differ
\* from it in the application, in the name or in the currency
PriceKeys ==
    {<<<<"7", "3", "0">>, Chroma3Case, 1>>, <<<<"4", "4", "0">>, Chroma3Case, 1>>,
     <<<<"7", "3", "0">>, <<"C", "h", "r", "o", "m", "a", " ", "3", " ", "C", "a", "s", "e", "_", "1">>, 1>>, <<<<"7", "3", "0">>, Chroma3Case, 5>>}

\* the bodies the price endpoint may answer with
PriceBodies ==
    {NoPriceBody,
     [NoPriceBody EXCEPT !.parsable = TRUE],
     Priced(Absent, Absent),
     Priced(Text(<<>>), Text(<<>>)),
     Priced(Text(<<"$", "1", ".", "2", "3">>), Text(<<"$", "1", ".", "5", "0">>)),
     Priced(Text(<<"1", ",", "2", "3", "€">>), Absent),
     Priced(Absent, Text(<<"$", "1", ".", "5", "0">>)),
     Priced(Text(<<>>), Text(<<"1", ",", "5", "0", "€">>)),
     Priced(Text(<<"N", "/", "A">>), Text(<<"$", "1", ".", "5", "0">>)),
     Priced(Text(<<"$", "1", ",", "2", "3", "4", ".", "5", "6">>), Absent),
     Priced(Text(<<"1", ".", "2", "3", "4", ",", "5", "6", "€">>), Absent),
     Priced(Text(<<"$", "1", ",", "2", "3", "4", ",", "5", "6", "7", ".", "8", "9">>), Absent),
     Priced(Text(<<"1", ".", "2", "3", "4", ".", "5", "6", "7", ",", "8", "9", "€">>), Absent)}

PricePauses == {CACHE_DURATION - 1, CACHE_DURATION}

InitPrice ==
    /\ ManagersConstructed
    /\ steamApiKey = "KEY"
    /\ ParserConstructed
    /\ ServicesConstructed
    /\ StorageWorks
    /\ StorageConstructed
    /\ upstreamInventory = NoInventoryBody

\* getItemPrice is called with one key after another
NextPrice ==
    \/ \E c \in SerialCalls, key \in PriceKeys : GetItemPrice(c, key[1], Text(key[2]), key[3])
    \/ \E c \in SerialCalls, body \in PriceBodies : PriceResponse(c, body)
    \/ PriceLogged
    \/ \E c \in SerialCalls, gap \in PricePauses : Pause(c, gap)
    \/ \E c \in SerialCalls : ApiRequestStep(c)

SpecPrice == InitPrice /\ [][NextPrice]_vars

\* getItemPrice with a storage that writes the log records, or that rejects
\* every createLog
InitSink ==
    /\ ManagersConstructed
    /\ steamApiKey = "KEY"
    /\ ParserConstructed
    /\ ServicesConstructed
    /\ StorageConstructed
    /\ upstreamInventory = NoInventoryBody
    /\ failing \in {{}, {"createLog"}}

SpecSink == InitSink /\ [][NextPrice]_vars

-----------------------------------------------------------------------------
(* getCurrencyId *)

MaxCurrencyCalls == 2       \* getCurrencyId calls during one run

\* currencyMap (lines 98-146 of market-price.ts)
currencyMap ==
    [code \in {"USD", "GBP", "EUR", "CHF", "RUB", "PLN", "BRL", "JPY", "NOK", "IDR",
               "MYR", "PHP", "SGD", "THB", "VND", "KRW", "TRY", "UAH", "MXN", "CAD",
               "AUD", "NZD", "CNY", "INR", "CLP", "PEN", "COP", "ZAR", "HKD", "TWD",
               "SAR", "AED", "SEK", "ARS", "ILS", "BYN", "KZT", "KWD", "QAR", "CRC",
               "UYU", "BGN", "HRK", "CZK", "DKK", "HUF", "RON"} |->
        CASE code = "USD" -> 1  [] code = "GBP" -> 2  [] code = "EUR" -> 3
          [] code = "CHF" -> 4  [] code = "RUB" -> 5  [] code = "PLN" -> 6
          [] code = "BRL" -> 7  [] code = "JPY" -> 8  [] code = "NOK" -> 9
          [] code = "IDR" -> 10 [] code = "MYR" -> 11 [] code = "PHP" -> 12
          [] code = "SGD" -> 13 [] code = "THB" -> 14 [] code = "VND" -> 15
          [] code = "KRW" -> 16 [] code = "TRY" -> 17 [] code = "UAH" -> 18
          [] code = "MXN" -> 19 [] code = "CAD" -> 20 [] code = "AUD" -> 21
          [] code = "NZD" -> 22 [] code = "CNY" -> 23 [] code = "INR" -> 24
          [] code = "CLP" -> 25 [] code = "PEN" -> 26 [] code = "COP" -> 27
          [] code = "ZAR" -> 28 [] code = "HKD" -> 29 [] code = "TWD" -> 30
          [] code = "SAR" -> 31 [] code = "AED" -> 32 [] code = "SEK" -> 33
          [] code = "ARS" -> 34 [] code = "ILS" -> 35 [] code = "BYN" -> 36
          [] code = "KZT" -> 37 [] code = "KWD" -> 38 [] code = "QAR" -> 39
          [] code = "CRC" -> 40 [] code = "UYU" -> 41 [] code = "BGN" -> 42
          [] code = "HRK" -> 43 [] code = "CZK" -> 44 [] code = "DKK" -> 45
          [] code = "HUF" -> 46 [] code = "RON" -> 47]

\* currencyMap is an object literal: a property it does not have itself is
\* looked up in Object.prototype, whose properties are functions (and, for
\* __proto__, an object)
ObjectPrototypeProperties ==
    {"constructor", "toString", "toLocaleString", "valueOf", "hasOwnProperty",
     "isPrototypeOf", "propertyIsEnumerable", "__proto__"}

\* A value getCurrencyId returns: a number, or a property of Object.prototype
IdValue(n) == [kind |-> "number", id |-> n, property |-> ""]
InheritedValue(name) == [kind |-> "inherited", id |-> 0, property |-> name]

\* currencyMap[currencyCode] || 1 (line 148): the ids of the table and the
\* inherited values are truthy, undefined is not
getCurrencyId(currencyCode) ==
    IF currencyCode \in DOMAIN currencyMap THEN IdValue(currencyMap[currencyCode])
    ELSE IF currencyCode \in ObjectPrototypeProperties THEN InheritedValue(currencyCode)
    ELSE IdValue(UsdCurrencyId)

\* marketPrice.getCurrencyId(currency) is called (routes.ts, lines 172 and 270)
CurrencyIdAsked(currencyCode) ==
    /\ Len(currencyCalls) < MaxCurrencyCalls
    /\ currencyCalls' = Append(currencyCalls,
                               [code |-> currencyCode, result |-> getCurrencyId(currencyCode)])
    /\ UNCHANGED <<now, requestDelay, userAgents, lastRequestTime, inventoryRequestsThisPeriod,
                   periodStartTime, retryAttempts, calls, started, lastDispatch,
                   processDispatch, inventoryDispatches>>
    /\ UNCHANGED parserVars
    /\ UNCHANGED <<accounts, accountsCurrentId, upstreamInventory, inventoryCache, priceCache,
                   arrays, inv, quote, route, storedCases, casesCurrentId, failing>>

\* the values of settings.currency: the codes of the table, the default, and
\* texts that are not codes of the table
CurrencyCodes ==
    DOMAIN currencyMap
        \cup {"", "usd", "Eur", "XXX", "US Dollar", "constructor", "toString", "__proto__"}

NextCurrency == \E currencyCode \in CurrencyCodes : CurrencyIdAsked(currencyCode)

SpecCurrency == InitPrice /\ [][NextCurrency]_vars

-----------------------------------------------------------------------------
(* Properties of RequestManager with serialized calls *)

\* The minimum spacing the documentation promises before a request: the
\* configured delay (2000 ms when it is unset or 0), and for an inventory
\* request max(8000, 4 x delay) + 2000 ms
PromisedSpacing(d) ==
    LET delay == IF d.configured = 0 THEN 2000 ELSE d.configured
    IN  IF d.inventory
        THEN (IF 4 * delay > 8000 THEN 4 * delay ELSE 8000) + 2000
        ELSE delay

\* C1: on each RequestManager, every request (a re-dispatch after a 429
\* included) is handed to fetch at least the minimum spacing after the request
\* that manager handed to fetch before it.
C1_MinimumSpacing ==
    \A rm \in Managers :
        lastDispatch[rm].previous # 0 =>
            lastDispatch[rm].t - lastDispatch[rm].previous >= PromisedSpacing(lastDispatch[rm])

\* C1 witness: an inventory request that had to wait for its spacing has just
\* been handed to fetch, less than 5 s later than the minimum allowed it.
C1_Witness ==
    \E c \in Calls :
        LET d == lastDispatch[calls[c].rm]
        IN  /\ calls[c].pc = "fetch"
            /\ d.inventory
            /\ d.previous # 0
            /\ d.t - d.previous < PromisedSpacing(d) + 5000

C3_RollingWindow ==
    \A rm \in Managers :
        Len(inventoryDispatches[rm]) = 6 =>
            inventoryDispatches[rm][6] - inventoryDispatches[rm][1] >= 1800000

\* C10 (as claimed): the minimum spacing holds between any two consecutive
\* requests of the process, whichever component made them.
C10_ProcessWideSpacing ==
    processDispatch.previous # 0 =>
        processDispatch.t - processDispatch.previous >= PromisedSpacing(processDispatch)

\* C4: a call that is answered 429 every time makes at most 4 fetches, never
\* returns the 429 response, fails with the rate-limit error after the 4th, and
\* does finish.
C4_ThrottledCallFails ==
    /\ [](\A c \in Calls :
            /\ calls[c].fetches <= 4
            /\ (calls[c].result.kind = "response" => calls[c].result.status # 429)
            /\ (calls[c].pc = "done" /\ calls[c].throttled = calls[c].fetches =>
                    /\ calls[c].fetches = 4
                    /\ calls[c].result = Thrown(RateLimitMessage)))
    /\ \A c \in Calls : (InFlight(c) /\ calls[c].throttled = calls[c].fetches) ~>
                            (calls[c].pc = "done" \/ calls[c].throttled # calls[c].fetches)

\* C4 witness: a call answered 429 four times has failed with the rate-limit error.
C4_Witness ==
    \E c \in Calls :
        /\ calls[c].pc = "done"
        /\ calls[c].throttled = 4
        /\ calls[c].fetches = 4
        /\ calls[c].result.kind = "throw"

\* min(300000, 60000 x 2^k)
ExpectedBackoff(k) == IF 60000 * (2 ^ k) < 300000 THEN 60000 * (2 ^ k) ELSE 300000

\* C5: within one call the wait after the k-th 429 (k = 0, 1, 2) is
\* min(300000, 60000 x 2^k) ms: 60 s, 120 s, 240 s, increasing, never above 300 s,
\* and the re-dispatch is scheduled that long after the response.
C5_BackoffSchedule ==
    \A c \in Calls :
        LET b == calls[c].backoffs
        IN  /\ Len(b) <= 3
            /\ \A k \in 1..Len(b) :
                  /\ b[k] = ExpectedBackoff(k - 1)
                  /\ b[k] = <<60000, 120000, 240000>>[k]
                  /\ b[k] <= 300000
                  /\ (k > 1 => b[k] > b[k - 1])
            /\ (calls[c].pc = "backoff" =>
                  /\ Len(b) = calls[c].throttled
                  /\ calls[c].wakeAt - now = b[Len(b)])

\* C5 witness: a call is in its third backoff.
C5_Witness ==
    \E c \in Calls : calls[c].pc = "backoff" /\ Len(calls[c].backoffs) = 3

\* C6: when a call has finished, no retry counter is stored for its path, and a
\* new call reads attempt 0 for its path.
C6_NoCounterLeft ==
    \A c \in Calls :
        /\ (calls[c].pc = "done" =>
                ~MapHas(retryAttempts[calls[c].rm], RequestKey(calls[c].url)))
        /\ (calls[c].pc = "logRequest" /\ calls[c].fetches = 0 =>
                calls[c].currentAttempts = 0)

\* C6 witness: a call that was throttled, retried and then got a response has finished.
C6_Witness ==
    \E c \in Calls :
        /\ calls[c].pc = "done"
        /\ calls[c].throttled >= 1
        /\ calls[c].result.kind = "response"

\* C7: only a 429 is followed by another fetch.  A call never makes more fetches
\* than 429s received plus one; when its last fetch failed at network level it
\* ends there, logs the failure and throws it; when its last fetch got a
\* non-429 response it ends there and returns that response.
C7_OnlyThrottlingRetried ==
    \A c \in Calls :
        /\ calls[c].fetches <= calls[c].throttled + 1
        /\ (calls[c].pc = "done" /\ calls[c].status # 429 =>
                /\ calls[c].fetches = calls[c].throttled + 1
                /\ IF calls[c].status = 0
                   THEN /\ calls[c].result = Thrown(calls[c].error)
                        /\ calls[c].log[Len(calls[c].log)] =
                              RequestFailedLog(calls[c].url, calls[c].error)
                        /\ Len(calls[c].log) = calls[c].fetches + 1
                   ELSE calls[c].result = Returned(calls[c].status))

\* C7 witness: a call whose only fetch failed at network level has thrown.
C7_Witness ==
    \E c \in Calls :
        /\ calls[c].pc = "done"
        /\ calls[c].status = 0
        /\ calls[c].fetches = 1
        /\ calls[c].result.kind = "throw"

\* C8 (as claimed): no log record of a call contains any part of the query
\* string of its URL.
C8_LogsHideQuery ==
    \A c \in Calls :
        \A i \in 1..Len(calls[c].log) : calls[c].log[i].error.query = ""

\* The caller's options name a User-Agent header, in any letter case
GivesUserAgent(options) ==
    /\ options.hasHeaders
    /\ \E h \in DOMAIN options.headers : h \in {"User-Agent", "user-agent", "USER-AGENT"}

\* C9: a request whose caller gave a User-Agent header (in any letter case) is
\* sent with exactly the caller's headers; otherwise it is sent with the
\* caller's headers and a User-Agent from the pool.
C9_CallerUserAgentKept ==
    \A c \in Calls :
        calls[c].fetches >= 1 =>
            LET given == calls[c].callerOptions.headers
                sent == calls[c].options.headers
            IN  IF GivesUserAgent(calls[c].callerOptions)
                THEN sent = given
                ELSE /\ DOMAIN sent = (DOMAIN given) \cup {"User-Agent"}
                     /\ sent["User-Agent"] \in userAgents[calls[c].rm]
                     /\ \A h \in DOMAIN given : sent[h] = given[h]

\* C9 witness: a request whose caller gave a lower-case user-agent header is
\* being fetched.
C9_Witness ==
    \E c \in Calls :
        /\ calls[c].pc = "fetch"
        /\ calls[c].callerOptions.hasHeaders
        /\ "user-agent" \in DOMAIN calls[c].callerOptions.headers

-----------------------------------------------------------------------------
(* Properties of SteamParser: identifiers *)

\* C11 (as claimed): for a legacy identifier x = STEAM_u:y:z with u in 0..5,
\* y in 0..1 and z in the 32-bit account space, getSteamId applied to what
\* convertSteamIDToSteamID64(x) returned gives exactly x.
C11_LegacyRoundTrip ==
    op.kind = "resolve" /\ op.pc = "done" /\ op.origin \in LegacyIds
        => op.result = StringResult(op.origin)

\* C12 (as claimed): for n = 76561197960265728 + a with 0 <= a < 2^32,
\* getSteamId(n) converts n without reading the settings or making a request,
\* and convertSteamIDToSteamID64 applied to its result gives n.
C12_NumericRoundTrip ==
    /\ (op.kind = "resolve" /\ op.identifier \in NumericIds
            => /\ op.settingsReads = 0
               /\ op.requests = 0
               /\ (op.pc = "done" => op.result.kind = "string"))
    /\ (op.kind = "convert" /\ op.pc = "done" /\ op.origin \in NumericIds
            => op.result = StringResult(op.origin))

\* the number getSteamId converted: the identifier, or the steamid of the lookup
ConvertedNumber == IF MatchesId64(op.identifier) THEN op.identifier ELSE op.body.steamid

\* C13 (as claimed): every string getSteamId returns for a 64-bit identifier or
\* for the steamid of a vanity lookup matches the legacy pattern, with the
\* lowest bit of the low 32 bits as its bit and the low 32 bits shifted right by
\* one as its (non-negative) account number, and convertSteamIDToSteamID64
\* accepts it.
C13_ResolvedIsLegacy ==
    op.kind = "resolve" /\ op.pc = "done" /\ op.result.kind = "string"
        /\ ~MatchesLegacy(op.identifier)
        => LET w == BigIntWords(ConvertedNumber)
           IN  /\ MatchesLegacy(op.result.value)
               /\ op.result.value =
                     SteamPrefix \o NatChars(UniverseOf(w)) \o <<":">> \o NatChars(LowBit(w))
                         \o <<":">> \o NatChars(ShiftRightUnsigned(w))
               /\ ConvertSteamIDToSteamID64(op.result.value).ok

\* C14: getSteamId applied to an identifier that matches the legacy pattern
\* returns it unchanged at once: it reads no settings, calls no makeRequest,
\* writes no log record and takes no time.
C14_LegacyUnchanged ==
    op.kind = "resolve"
        /\ Len(op.identifier) >= 11 /\ HasAt(op.identifier, 1, SteamPrefix)
        /\ op.identifier[7] \in {"0", "1", "2", "3", "4", "5"}
        /\ op.identifier[8] = ":" /\ op.identifier[9] \in {"0", "1"}
        /\ op.identifier[10] = ":" /\ IsDigits(From(op.identifier, 11))
        => /\ op.pc = "done"
           /\ op.result = StringResult(op.identifier)
           /\ op.settingsReads = 0
           /\ op.requests = 0
           /\ op.log = <<>>
           /\ now = op.startedAt
           /\ \A c \in SerialCalls : calls[c] = IdleCall

\* C14 witness: getSteamId has returned a legacy identifier of universe 1
C14_Witness ==
    /\ op.kind = "resolve"
    /\ op.pc = "done"
    /\ op.identifier = LegacyId(1, 1, 11101)
    /\ op.result = StringResult(LegacyId(1, 1, 11101))

\* the identifier goes to the vanity lookup: it has neither the legacy nor the 64-bit form
IsVanityLookup ==
    op.kind = "resolve" /\ ~MatchesLegacy(op.identifier) /\ ~MatchesId64(op.identifier)

\* C15: without an API key in the settings, getSteamId of a vanity identifier
\* makes no request, logs the failure and returns null.
C15_MissingKeyFails ==
    IsVanityLookup /\ steamApiKey = ""
        => /\ op.requests = 0
           /\ started = 0
           /\ \A c \in SerialCalls : calls[c].fetches = 0
           /\ (op.pc = "done"
                  => /\ op.result = NullResult
                     /\ op.log = <<[level |-> "error", message |-> "Failed to resolve Steam ID",
                                    identifier |-> op.identifier,
                                    error |-> ErrorOf("Steam API key not configured")]>>)

\* C15 witness: a vanity lookup has ended without an API key
C15_Witness ==
    /\ IsVanityLookup
    /\ steamApiKey = ""
    /\ op.pc = "done"
    /\ op.result = NullResult

\* the vanity lookup failed: makeRequest threw (network failure or rate limit),
\* or the body was not JSON, or its success was not 1
LookupFailed ==
    \/ op.response.kind = "throw"
    \/ op.response.kind = "response" /\ ~op.body.parsable
    \/ op.response.kind = "response" /\ ~(op.body.hasResponse /\ op.body.success = 1)

\* the error detail of a failed vanity lookup
LookupErrorDetail ==
    IF op.response.kind = "throw" THEN op.response.error.text
    ELSE IF ~op.body.parsable
    THEN "invalid json response body at <url> reason: Unexpected token"
    ELSE IF op.body.hasResponse /\ op.body.message = "No match"
    THEN "Failed to resolve vanity URL: No match"
    ELSE "Failed to resolve vanity URL: Unknown error"

\* C16: when the vanity lookup fails, getSteamId returns null and has written
\* exactly one log record, of level error, with the identifier as it was given
\* and the error's message.
C16_LookupFailureLogged ==
    op.kind = "resolve" /\ op.pc = "done" /\ op.requests = 1 /\ LookupFailed
        => /\ op.result = NullResult
           /\ Len(op.log) = 1
           /\ op.log[1].level = "error"
           /\ op.log[1].identifier = op.identifier
           /\ op.log[1].error.text = LookupErrorDetail

\* C16 witness: a lookup for a profile URL has ended after the upstream said "No match"
C16_Witness ==
    /\ op.kind = "resolve"
    /\ op.pc = "done"
    /\ op.requests = 1
    /\ op.identifier # op.vanityUrl
    /\ op.body.success = 42
    /\ op.result = NullResult

\* C17 (as claimed): convertSteamIDToSteamID64 returns a number exactly for the
\* inputs that match the legacy pattern of getSteamId, and throws the
\* invalid-format error for every other input.
C17_ConvertAcceptsLegacyOnly ==
    op.kind = "convert" /\ op.pc = "done"
        => /\ (op.result.kind = "string" <=> MatchesLegacy(op.identifier))
           /\ (op.result.kind # "string" => op.result = ThrowResult(ErrorOf("Invalid SteamID format")))

-----------------------------------------------------------------------------
(* Properties of SteamParser: profiles *)

\* C18: a getProfileInfo call made less than 6 hours after the cached entry of
\* its id was written returns the cached data at once, without reading the
\* settings or making a request; a call made 6 hours after it or later makes a
\* new request.
C18_CacheWindow ==
    op.kind = "profile" /\ MapHas(op.cacheAtStart, op.identifier)
        => LET cached == op.cacheAtStart[op.identifier]
           IN  /\ (op.startedAt - cached.timestamp < 21600000
                      => /\ op.pc = "done"
                         /\ op.result = ProfileResult(cached.data)
                         /\ op.settingsReads = 0
                         /\ op.requests = 0
                         /\ \A c \in SerialCalls : calls[c] = IdleCall)
               /\ (op.startedAt - cached.timestamp >= 21600000 /\ op.pc = "done"
                      => op.requests = 1 /\ op.fetches >= 1)

\* C18 witness: a call made exactly 6 hours after the entry was written has made a request
C18_Witness ==
    /\ op.kind = "profile"
    /\ op.pc = "done"
    /\ MapHas(op.cacheAtStart, op.identifier)
    /\ op.startedAt - op.cacheAtStart[op.identifier].timestamp = 21600000
    /\ op.fetches >= 1

\* getProfileInfo met an upstream failure: no API key, an id that cannot be
\* converted, a makeRequest that threw, a body that is not JSON or has no player
ProfileFailed ==
    \/ op.settingsReads = 1 /\ steamApiKey = ""
    \/ op.settingsReads = 1 /\ ~ConvertSteamIDToSteamID64(op.identifier).ok
    \/ op.response.kind = "throw"
    \/ op.response.kind = "response" /\ ~op.body.parsable
    \/ op.response.kind = "response" /\ ~(op.body.hasResponse /\ op.body.hasPlayers
                                           /\ Len(op.body.players) > 0)

\* C19: getProfileInfo never throws; after an upstream failure it returns null,
\* has written one error log record and has left the profile cache as it was.
C19_FailureReturnsNull ==
    op.kind = "profile"
        => /\ op.result.kind # "throw"
           /\ (op.pc = "done" /\ ProfileFailed
                  => /\ op.result = NullResult
                     /\ Len(op.log) = 1
                     /\ op.log[1].level = "error"
                     /\ profileCache = op.cacheAtStart)

\* C19 witness: a refetch of a cached profile has failed by rate-limit exhaustion
C19_Witness ==
    /\ op.kind = "profile"
    /\ op.pc = "done"
    /\ MapHas(op.cacheAtStart, op.identifier)
    /\ op.response = Thrown(RateLimitMessage)
    /\ op.result = NullResult

\* C20: the ProfileInfo getProfileInfo builds is public exactly when the
\* communityvisibilitystate of the player is the number 3.
C20_PublicIffThree ==
    op.kind = "profile" /\ op.pc = "done" /\ op.requests = 1 /\ op.result.kind = "profile"
        => LET visibility == op.body.players[1].communityvisibilitystate
           IN  /\ op.result.data.isPrivate = ~(visibility = Visibility("number", 3))
               /\ profileCache[op.identifier].data = op.result.data

\* C20 witness: a profile whose visibility state is the number 3 was built as public
C20_Witness ==
    /\ op.kind = "profile"
    /\ op.pc = "done"
    /\ op.requests = 1
    /\ op.body.parsable
    /\ Len(op.body.players) = 1
    /\ op.body.players[1].communityvisibilitystate = Visibility("number", 3)
    /\ op.result.kind = "profile"
    /\ ~op.result.data.isPrivate

-----------------------------------------------------------------------------
(* Properties of the inventory cache and of the join *)

\* C21: a getInventory call entered less than 2 hours after the entry of its
\* (steamId, appId) was written makes no request and returns the items the
\* successful call returned, in the same order, with only accountId replaced
\* by the accountId of this call.
C21_HitReturnsFetchedItems ==
    inv.pc # "idle" /\ MapHas(inv.cacheAtStart, inv.cacheKey)
        /\ inv.startedAt - inv.cacheAtStart[inv.cacheKey].timestamp < 7200000
        => LET fetched == inv.cacheAtStart[inv.cacheKey].fetched
           IN  /\ inv.pc = "done"
               /\ inv.requests = 0
               /\ inv.result.kind = "array"
               /\ inv.returned =
                     [i \in 1..Len(fetched) |-> [fetched[i] EXCEPT !.accountId = inv.accountId]]

\* C22: when the inventory endpoint answers 403, getInventory returns an empty
\* array, has written one error log record that says the inventory is private,
\* has set isPrivate of the account in the storage, and has left the inventory
\* cache as it was.
C22_ForbiddenMarksPrivate ==
    inv.pc = "done" /\ inv.response = Returned(403)
        => /\ inv.result.kind = "array"
           /\ arrays[inv.result.ref] = <<>>
           /\ Len(inv.log) = 1
           /\ inv.log[1].level = "error"
           /\ inv.log[1].error.text = "Inventory is private or unavailable"
           /\ inv.accountId \in DOMAIN accounts
           /\ accounts[inv.accountId].isPrivate
           /\ inventoryCache = inv.cacheAtStart

\* C22 witness: a refresh of account 1 was answered 403 and the account is private
C22_Witness ==
    /\ inv.pc = "done"
    /\ inv.response = Returned(403)
    /\ inv.accountId = 1
    /\ accounts[1].isPrivate
    /\ arrays[inv.result.ref] = <<>>

\* getInventory met a failure: an id that cannot be converted, a makeRequest
\* that threw (network failure, rate limit), a status that is not 2xx, a body
\* that is not JSON or lacks success, assets or descriptions
InventoryFailed ==
    \/ inv.pc # "idle" /\ inv.requests = 0 /\ ~MatchesConvertiblePattern(inv.steamId)
    \/ inv.response.kind = "throw"
    \/ inv.response.kind = "response" /\ inv.response.status \notin 200..299
    \/ inv.response.kind = "response" /\ inv.response.status \in 200..299
          /\ inv.pc \in {"inventoryLog", "done"}
          /\ ~(inv.body.parsable /\ inv.body.success /\ inv.body.hasAssets
                 /\ inv.body.hasDescriptions)

\* C23: getInventory never throws: whenever it has returned, it has returned an
\* array, and after a failure the array is empty and one error log record has
\* been written.
C23_AlwaysReturnsArray ==
    inv.pc = "done"
        => /\ inv.result.kind = "array"
           /\ inv.result.ref \in 1..Len(arrays)
           /\ InventoryFailed
                 => /\ arrays[inv.result.ref] = <<>>
                    /\ Len(inv.log) = 1
                    /\ inv.log[1].level = "error"
                    /\ inv.log[1].message = "Failed to parse inventory"

\* C23 witness: a call whose request ran out of retries has returned an empty array
C23_Witness ==
    /\ inv.pc = "done"
    /\ inv.response = Thrown(RateLimitMessage)
    /\ inv.result.kind = "array"
    /\ arrays[inv.result.ref] = <<>>
    /\ Len(inv.log) = 1

\* the name the claim looks at: the name, the market hash name when it is absent
DescribedName(d) == IF d.name.present THEN d.name.chars ELSE d.market_hash_name.chars

\* asset a of body has a description (the last one of its classid and
\* instanceid) whose name holds a container word and neither Key nor Graffiti
Retained(a, body) ==
    \E j \in 1..Len(body.descriptions) :
        LET d == body.descriptions[j]
        IN  /\ d.classid = a.classid /\ d.instanceid = a.instanceid
            /\ \A k \in (j + 1)..Len(body.descriptions) :
                   ~(body.descriptions[k].classid = a.classid
                       /\ body.descriptions[k].instanceid = a.instanceid)
            /\ \E w \in {<<"C", "a", "s", "e">>, <<"W", "e", "a", "p", "o", "n", " ", "C", "a", "s", "e">>, <<"C", "o", "n", "t", "a", "i", "n", "e", "r">>, <<"e", "S", "p", "o", "r", "t", "s", " ", "C", "a", "s", "e">>,
                         <<"O", "p", "e", "r", "a", "t", "i", "o", "n">>} : Includes(DescribedName(d), w)
            /\ ~Includes(DescribedName(d), <<"K", "e", "y">>)
            /\ ~Includes(DescribedName(d), <<"G", "r", "a", "f", "f", "i", "t", "i">>)

\* C24: after a successful inventory response the returned items are, in asset
\* order, one item for each asset whose description is that of a container,
\* and no other; a case, a key and a sticker give the one case.
C24_RetainsContainersOnly ==
    inv.pc = "done" /\ inv.requests = 1 /\ inv.response.kind = "response"
        /\ inv.response.status \in 200..299
        /\ inv.body.parsable /\ inv.body.success /\ inv.body.hasAssets
        /\ inv.body.hasDescriptions
        => LET kept == SelectSeq(inv.body.assets, LAMBDA a : Retained(a, inv.body))
           IN  /\ Len(inv.returned) = Len(kept)
               /\ \A i \in 1..Len(kept) :
                      /\ inv.returned[i].assetId = kept[i].assetid
                      /\ inv.returned[i].classId = kept[i].classid
                      /\ inv.returned[i].instanceId = kept[i].instanceid
               /\ (inv.body = ThreeAssets
                      => Len(inv.returned) = 1 /\ inv.returned[1].assetId = <<"1", "0", "1">>)

\* C24 witness: the inventory of a case, a key and a sticker has given one item
C24_Witness ==
    /\ inv.pc = "done"
    /\ inv.requests = 1
    /\ inv.body = ThreeAssets
    /\ Len(inv.returned) = 1
    /\ inv.returned[1].name = Text(Chroma3Case)

\* C25: every item getInventory has built has a quantity of 1 or more.
C25_QuantityAtLeastOne ==
    \A r \in 1..Len(arrays) : \A i \in 1..Len(arrays[r]) : arrays[r][i].quantity >= 1

\* C26: every item of an array getInventory returns has price null when it is
\* returned, on a cache miss and on a cache hit.
C26_ReturnedUnpriced ==
    inv.pc = "done" /\ inv.result.kind = "array"
        => \A i \in 1..Len(inv.returned) : inv.returned[i].price = NullPrice

\* C27: a getInventory call that fails leaves every cache entry as it was (same
\* array with the same items, same timestamp) and creates none; every entry
\* was written from a 2xx response whose body was complete.
C27_FailureLeavesCache ==
    /\ inv.pc = "done" /\ InventoryFailed
          => /\ inventoryCache = inv.cacheAtStart
             /\ \A k \in DOMAIN inv.cacheAtStart :
                    arrays[inventoryCache[k].data]
                        = inv.arraysAtStart[inv.cacheAtStart[k].data]
    /\ \A k \in DOMAIN inventoryCache :
          LET e == inventoryCache[k]
          IN  /\ e.response.kind = "response"
              /\ e.response.status \in 200..299
              /\ e.body.parsable /\ e.body.success /\ e.body.hasAssets
              /\ e.body.hasDescriptions
              /\ e.data \in 1..Len(arrays)

\* C27 witness: a refetch of a stale entry has failed and the entry is still there
C27_Witness ==
    /\ inv.pc = "done"
    /\ InventoryFailed
    /\ inv.requests = 1
    /\ MapHas(inv.cacheAtStart, inv.cacheKey)
    /\ MapHas(inventoryCache, inv.cacheKey)
    /\ inv.startedAt - inventoryCache[inv.cacheKey].timestamp >= 7200000

-----------------------------------------------------------------------------
(* Properties of getItemPrice *)

\* the entries of a price cache written for the arguments of the call in
\* progress less than 24 hours before it started
FreshPriceEntries(cache) ==
    {k \in DOMAIN cache :
        /\ cache[k].appId = quote.appId
        /\ cache[k].marketHashName = quote.marketHashName
        /\ cache[k].currency = quote.currency
        /\ quote.startedAt - cache[k].timestamp < 86400000}

\* C28: a getItemPrice call entered less than 24 hours after a price was cached
\* for the same (appId, name, currency) makes no request and returns that
\* price; a call for which no such entry exists is not served from the cache:
\* it makes a request.
C28_PriceCacheWindow ==
    quote.pc # "idle"
        => /\ \A k \in FreshPriceEntries(quote.cacheAtStart) :
                  /\ quote.pc = "done"
                  /\ quote.requests = 0
                  /\ quote.result = PriceResult(quote.cacheAtStart[k].price)
                  /\ \A c \in SerialCalls : calls[c] = IdleCall
           /\ FreshPriceEntries(quote.cacheAtStart) = {} => quote.requests = 1

\* C28 witness: a call made one millisecond before the 24 hours are over is
\* served from the cache
C28_Witness ==
    /\ quote.pc = "done"
    /\ quote.requests = 0
    /\ \E k \in FreshPriceEntries(quote.cacheAtStart) :
          /\ quote.startedAt - quote.cacheAtStart[k].timestamp = 86399999
          /\ quote.result = PriceResult(quote.cacheAtStart[k].price)

\* getItemPrice met a failure: a makeRequest that threw (network failure, rate
\* limit), a status that is not 2xx, a body that is not JSON or lacks success
PriceFailed ==
    \/ quote.response.kind = "throw"
    \/ quote.response.kind = "response" /\ quote.response.status \notin 200..299
    \/ quote.response.kind = "response" /\ quote.response.status \in 200..299
          /\ quote.pc \in {"priceLog", "done"}
          /\ ~(quote.body.parsable /\ quote.body.success)

\* C29: after a failure getItemPrice returns null, has written one error log
\* record and has left the price cache as it was, without a fresh entry for
\* its arguments; and a call that finds no fresh entry makes a request.
C29_PriceFailureReturnsNull ==
    /\ quote.pc = "done" /\ PriceFailed
          => /\ quote.result = PriceResult(NullPrice)
             /\ Len(quote.log) = 1
             /\ quote.log[1].level = "error"
             /\ quote.log[1].message = "Failed to get market price"
             /\ priceCache = quote.cacheAtStart
             /\ FreshPriceEntries(priceCache) = {}
    /\ quote.pc = "done" => quote.result.kind = "value"
    /\ quote.pc # "idle" /\ FreshPriceEntries(quote.cacheAtStart) = {} => quote.requests = 1

\* C29 witness: a body without success flag has given null
C29_Witness ==
    /\ quote.pc = "done"
    /\ quote.response = Returned(200)
    /\ quote.body.parsable
    /\ ~quote.body.success
    /\ quote.result = PriceResult(NullPrice)
    /\ Len(quote.log) = 1

\* C30: for a 2xx response whose body has a truthy success flag, getItemPrice
\* returns the parsed lowest price when that field is a string that is not
\* empty, else the parsed median price when that field is a string that is not
\* empty, else null, and in this last case it leaves the price cache as it was.
C30_LowestThenMedian ==
    quote.pc = "done" /\ quote.requests = 1 /\ quote.response.kind = "response"
        /\ quote.response.status \in 200..299
        /\ quote.body.parsable /\ quote.body.success
        => LET lowest == quote.body.lowest_price
               median == quote.body.median_price
               hasLowest == lowest.present /\ lowest.chars # <<>>
               hasMedian == median.present /\ median.chars # <<>>
           IN  /\ hasLowest => quote.result = PriceResult(ParsePriceString(lowest.chars))
               /\ ~hasLowest /\ hasMedian
                     => quote.result = PriceResult(ParsePriceString(median.chars))
               /\ ~hasLowest /\ ~hasMedian
                     => quote.result = PriceResult(NullPrice)
                           /\ priceCache = quote.cacheAtStart

\* C30 witness: of a lowest price of $1.23 and a median price of $1.50 the
\* call has returned 1.23
C30_Witness ==
    /\ quote.pc = "done"
    /\ quote.requests = 1
    /\ quote.body = Priced(Text(<<"$", "1", ".", "2", "3">>), Text(<<"$", "1", ".", "5", "0">>))
    /\ quote.result = PriceResult(Number(1, <<"2", "3">>))

-----------------------------------------------------------------------------
(* Properties of the prices *)

\* C31: every value getItemPrice returns and every price in the price cache is
\* null or a number that is not negative, never NaN.
C31_PriceIsNumberOrNull ==
    /\ quote.pc = "done" /\ quote.result.kind = "value"
          => /\ quote.result.price.kind \in {"null", "number"}
             /\ quote.result.price.units >= 0
    /\ \A k \in DOMAIN priceCache :
          /\ priceCache[k].price.kind \in {"null", "number"}
          /\ priceCache[k].price.units >= 0

\* the same text in the other convention: dots for commas, commas for dots
Swapped(s) ==
    [i \in 1..Len(s) |-> IF s[i] = "," THEN "." ELSE IF s[i] = "." THEN "," ELSE s[i]]

\* the digits of s
DigitsIn(s) == SelectSeq(s, LAMBDA ch : ch \in Digits)

\* the number a text writes whose decimal separator is its last separator:
\* the digits before it are the units, the digits after it the fraction
WrittenNumber(s) ==
    LET c == Cleaned(s)
        p == Max(LastIndexOf(c, ","), LastIndexOf(c, "."))
    IN  Number(NatOf(DigitsIn(SubSeq(c, 1, p - 1))),
               WithoutTrailingZeros(DigitsIn(SubSeq(c, p + 1, Len(c)))))

\* the separator that comes last in s comes once, and both come or it is a comma
LastSeparatorIsDecimal(s) ==
    LET c == Cleaned(s)
        commas == Len(SelectSeq(c, LAMBDA ch : ch = ","))
        dots == Len(SelectSeq(c, LAMBDA ch : ch = "."))
    IN  \/ commas > 0 /\ dots > 0 /\ LastIndexOf(c, ",") > LastIndexOf(c, ".") /\ commas = 1
        \/ commas > 0 /\ dots > 0 /\ LastIndexOf(c, ".") > LastIndexOf(c, ",") /\ dots = 1
        \/ commas = 1 /\ dots = 0

\* C32: the price returned for a lowest-price text is the price of the same
\* text written in the other convention; when both separators occur the last
\* one is the decimal separator and the other one is dropped wherever it
\* stands, and a comma alone is the decimal separator; "$1,234.56" and
\* "1.234,56€" give 1234.56.
C32_LocaleConventionsAgree ==
    quote.pc = "done" /\ quote.requests = 1 /\ quote.response.kind = "response"
        /\ quote.response.status \in 200..299
        /\ quote.body.parsable /\ quote.body.success
        /\ quote.body.lowest_price.present /\ quote.body.lowest_price.chars # <<>>
        => LET s == quote.body.lowest_price.chars
           IN  /\ quote.result = PriceResult(ParsePriceString(Swapped(s)))
               /\ LastSeparatorIsDecimal(s) => quote.result = PriceResult(WrittenNumber(s))
               /\ s \in {<<"$", "1", ",", "2", "3", "4", ".", "5", "6">>, <<"1", ".", "2", "3", "4", ",", "5", "6", "€">>}
                     => quote.result = PriceResult(Number(1234, <<"5", "6">>))

\* C32 witness: "1.234,56€" has given 1234.56
C32_Witness ==
    /\ quote.pc = "done"
    /\ quote.requests = 1
    /\ quote.body.lowest_price = Text(<<"1", ".", "2", "3", "4", ",", "5", "6", "€">>)
    /\ quote.result = PriceResult(Number(1234, <<"5", "6">>))

\* C33: getCurrencyId returns the id of the table for a code of the table and 1
\* for every other text; its result is an integer from 1 to 47.
C33_CurrencyIdInTable ==
    \A i \in 1..Len(currencyCalls) :
        LET call == currencyCalls[i]
        IN  /\ call.result.kind = "number"
            /\ call.result.id \in 1..47
            /\ call.code \in DOMAIN currencyMap => call.result.id = currencyMap[call.code]
            /\ call.code \notin DOMAIN currencyMap => call.result.id = 1

-----------------------------------------------------------------------------
(* Properties of the handlers and of the storage *)

\* C34: also when the log records cannot be written, a makeRequest call that
\* has ended has handed its request to fetch, and getItemPrice has returned a
\* price or null instead of throwing.
C34_SinkFailureNotFatal ==
    /\ \A c \in SerialCalls : calls[c].pc = "done" => calls[c].fetches >= 1
    /\ quote.pc = "done" => quote.result.kind = "value"


\* C35: a refresh-all run visits the accounts it read at its start one at a
\* time and in their order (the results it holds are those of the accounts
\* before the one in progress), and when the run has ended its results hold
\* exactly one entry, skipped, success or error, for every one of these accounts
C35_RefreshAllPartialProgress ==
    route.kind = "refreshAll" =>
        /\ \A j \in 1..Len(route.results) :
              /\ j <= Len(route.queue)
              /\ route.results[j].accountId = route.queue[j].id
              /\ route.results[j].status \in {"skipped", "success", "error"}
        /\ route.pc = "done" => Len(route.results) = Len(route.queue)

\* the cases the storage holds for an account
CasesOfAccount(accountId) ==
    {storedCases[id] : id \in {x \in DOMAIN storedCases : storedCases[x].accountId = accountId}}

\* the refresh handler has answered for an account whose inventory was fetched
\* with success, and every item of it was saved
RefreshedFromFetch ==
    /\ route.kind = "refresh"
    /\ route.pc = "done"
    /\ ~route.failed
    /\ route.errorCount = 0
    /\ inv.fetches >= 1
    /\ inv.response.kind = "response"
    /\ ResponseOk(inv.response.status)
    /\ inv.result.kind = "array"
    /\ inv.result.ref = route.cases
    /\ inv.error = NoMessage

\* C36: after a refresh of an account whose inventory fetch succeeded, the
\* cases stored for the account are exactly the items of this fetch; an item an
\* earlier refresh stored that the new inventory does not hold is stored no more
C36_RefreshSupersedes ==
    RefreshedFromFetch =>
        CasesOfAccount(route.id) =
            {arrays[route.cases][j] : j \in 1..Len(arrays[route.cases])}

-----------------------------------------------------------------------------
(* Properties of the handlers that run at the same time *)

\* C38: the handlers serialize their use of a RequestManager: at no time are
\* two makeRequest calls in flight on the same manager
C38_CallersSerialize ==
    \A c, d \in Calls :
        InFlight(c) /\ InFlight(d) /\ calls[c].rm = calls[d].rm => c = d

\* C39: a call that overlaps another call for the same path and receives 429
\* for every fetch makes at most MAX_RETRY_ATTEMPTS + 1 fetches: it never
\* receives more than MAX_RETRY_ATTEMPTS + 1 responses 429
C39_RetryBoundUnderInterleaving ==
    \A c \in Calls :
        calls[c].throttled = calls[c].fetches =>
            calls[c].throttled <= MAX_RETRY_ATTEMPTS + 1

\* C40: while inventory calls overlap on one manager, the counter of the
\* period never exceeds maxInventoryRequestsPer30Min, and no more inventory
\* requests than that are dispatched between two resets of it
C40_QuotaUnderInterleaving ==
    \A m \in Managers : inventoryRequestsThisPeriod[m] <= maxInventoryRequestsPer30Min

====
